---- MODULE Spec2Model ----
(***************************************************************************)
(* Planner state machine of the research-verification backend              *)
(* (backend/planner/planner_agent.py), the background task and API that    *)
(* drive it (backend/api/routes.py) and the repositories it writes through *)
(* (backend/storage/repositories).                                         *)
(*                                                                         *)
(* One action per handler of PlannerAgent.run.  Every repository call      *)
(* commits on its own, so a handler that raises part-way leaves the rows   *)
(* of the calls before the failing one: each handler takes the failing     *)
(* call as an input ("none" when nothing fails).                           *)
(*                                                                         *)
(* confidence_history and decision_history of PlannerContext are only ever *)
(* appended to and never read; they are left out of the state.             *)
(***************************************************************************)
EXTENDS Integers, Sequences, FiniteSets, TLC

\* ------------------------------------------------------------------ bounds
\* largest max_attempts a planner is constructed with
MaxMaxAttempts == 6
\* modelling cap on attempt_count (never reached while _should_stop works)
AttemptCap == MaxMaxAttempts
\* the clock advances in steps of TickSeconds up to MaxTicks steps
MaxTicks == 1
\* GET requests the clients send
MaxApiCalls == 2
\* longest list of claims a component is called with
MaxClaims == 3
\* longest list of results the search adapter returns
MaxResults == 2

\* ------------------------------------------------------- program constants
INITIAL_NUM_DOCS == 10
MAX_DOCS == 50
NO_PROGRESS_LIMIT == 3
CACHE_TTL_SECONDS == 60 * 60 * 24
TickSeconds == CACHE_TTL_SECONDS \div 2

None == "None"
\* None where the value, when present, is a record (a row, a result)
Null == [null |-> TRUE]

ACCEPT == "ACCEPT"
RETRY == "RETRY"
STOP == "STOP"

PlannerState == {"INIT", "RESEARCH", "VERIFY", "SYNTHESIZE", "DONE", "FAILED"}

BASE == "BASE"
BROADEN_QUERY == "BROADEN_QUERY"
AUTHORITATIVE_SITES == "AUTHORITATIVE_SITES"
RESEARCH_FOCUSED == "RESEARCH_FOCUSED"
SearchStrategy == {BASE, BROADEN_QUERY, AUTHORITATIVE_SITES, RESEARCH_FOCUSED}
STRATEGY_ORDER == <<BASE, BROADEN_QUERY, AUTHORITATIVE_SITES, RESEARCH_FOCUSED>>

MAX_ATTEMPTS_REASON == "Maximum retry attempts reached."
NO_PROGRESS_REASON == "No progress across multiple attempts."
NO_RESULT_REASON == "No research result available to synthesize."
DEFAULT_FAILED_REASON == "Planner terminated execution safely."

\* ------------------------------------------------------------ sequences
Range(f) == {f[i] : i \in DOMAIN f}

RECURSIVE SelectRows(_, _)
\* rows of a table whose session_id is sid, in table order
SelectRows(table, sid) ==
    IF table = <<>> THEN <<>>
    ELSE IF Head(table).session_id = sid
         THEN <<Head(table)>> \o SelectRows(Tail(table), sid)
         ELSE SelectRows(Tail(table), sid)

Min(a, b) == IF a < b THEN a ELSE b

\* ------------------------------------------------- question normalisation
\* a question is a sequence of characters
Lower(c) == CASE c = "A" -> "a" [] c = "B" -> "b" [] OTHER -> c
IsSpace(c) == c = " "

RECURSIVE LStrip(_)
LStrip(q) == IF q # <<>> /\ IsSpace(Head(q)) THEN LStrip(Tail(q)) ELSE q

RECURSIVE RStrip(_)
RStrip(q) ==
    IF q # <<>> /\ IsSpace(q[Len(q)]) THEN RStrip(SubSeq(q, 1, Len(q) - 1)) ELSE q

Strip(q) == RStrip(LStrip(q))

LowerAll(q) == [i \in DOMAIN q |-> Lower(q[i])]

RECURSIVE CollapseSpaces(_)
\* re.sub(r"\s+", " ", q): every run of whitespace becomes one space
CollapseSpaces(q) ==
    IF q = <<>> THEN <<>>
    ELSE IF IsSpace(Head(q))
         THEN <<" ">> \o CollapseSpaces(LStrip(Tail(q)))
         ELSE <<Head(q)>> \o CollapseSpaces(Tail(q))

NormalizeQuestion(q) == CollapseSpaces(LowerAll(Strip(q)))

\* sha256 of "normalized|strategy|num_docs": the hash is taken to be
\* collision free, so the key itself stands for the digest
ComputeQueryHash(question, strategy, num_docs) ==
    [question |-> NormalizeQuestion(question), strategy |-> strategy,
     num_docs |-> num_docs]

ModifyQuery(question, strategy) ==
    CASE strategy = BROADEN_QUERY -> question \o <<" explanation overview">>
      [] strategy = AUTHORITATIVE_SITES -> question \o <<" site:gov OR site:edu">>
      [] strategy = RESEARCH_FOCUSED -> question \o <<" research report policy">>
      [] OTHER -> question

\* ------------------------------------------------------------------ inputs
Q1 == <<"A", " ", " ", "b">>
Q2 == <<" ", "a", " ", "B", " ">>
Q3 == <<"a", "b">>
Questions == {Q1, Q3}

\* confidence reasons a research result may carry, and what
\* `"single source" in reason.lower()` / `"conflict" in reason.lower()` give
REASON_SINGLE == "Single source only"
REASON_CONFLICT == "Conflict detected"
REASON_OTHER == "Need more evidence"
REASON_PRIOR == "Multiple sources agree"
ContainsSingleSource(reason) ==
    \/ reason = REASON_SINGLE
    \/ \E n \in 1..MaxClaims :
         reason = "All " \o ToString(n)
                      \o " claim(s) from single sources only (no corroboration)."
ContainsConflict(reason) ==
    \/ reason = REASON_CONFLICT
    \/ \E n \in 1..MaxClaims :
         reason = "Conflicting information detected in " \o ToString(n)
                      \o " claim(s)."

EV1 == [claim |-> "claim one", status |-> "AGREEMENT", sources |-> <<"u1", "u2">>]
EV2 == [claim |-> "claim two", status |-> "SINGLE_SOURCE", sources |-> <<"u3">>]

Result(level, reason, items) ==
    [answer |-> "fresh answer", confidence_level |-> level,
     confidence_reason |-> reason, evidence |-> items, notes |-> None]

\* what research_agent.research may return
ResearchResults ==
    { Result("LOW", REASON_SINGLE, <<>>),
      Result("LOW", REASON_CONFLICT, <<EV1>>),
      Result("LOW", REASON_OTHER, <<EV1>>),
      Result("HIGH", REASON_OTHER, <<EV1>>) }

\* what verification_agent.decide may return
Decisions ==
    { [decision |-> ACCEPT, reason |-> "accepted", recommendation |-> None],
      [decision |-> RETRY, reason |-> "retry", recommendation |-> None],
      [decision |-> RETRY, reason |-> "retry", recommendation |-> "Search broader"],
      [decision |-> STOP, reason |-> "stopped", recommendation |-> None] }

MaxAttemptsChoices == 1..MaxMaxAttempts

Sessions == {"s1", "s2"}
PREV == "prev"
ORPHAN == "orphan"

AllIds == Sessions \cup {PREV, ORPHAN}
\* a path parameter that is not a UUID
INVALID == "not-a-uuid"
RequestIds == AllIds \cup {INVALID}

\* --------------------------------------------------------------- variables
VARIABLES
    ctx,              \* per task: the PlannerAgent and its PlannerContext
    task,             \* per session: position of _run_planner_background
    query_sessions,   \* table query_sessions: id -> row, None when absent
    planner_traces,   \* table planner_traces, in insertion order
    search_logs,      \* table search_logs, in insertion order
    answer_snapshots, \* table answer_snapshots, in insertion order
    evidence,         \* table evidence, in insertion order
    query_cache,      \* table query_cache: set of rows, query_hash is the key
    now,              \* datetime.utcnow(), seconds
    research_calls,   \* calls research_agent.research has received
    cache_lookups,    \* calls cache_repo.get_valid has received
    wiring,           \* per session: what its client submits, the agents and
                      \* max_attempts its planner is built with (the results
                      \* research returns, the exceptions it raises), whether
                      \* its database connection can fail
    api,              \* the HTTP API: GET calls served, the last response,
                      \* and for a GET /trace what INTERNAL_TRACE_TOKEN and
                      \* the header X-Internal-Token of the request held,
                      \* and the GET /trace being served between its reads
    call              \* a component called on its own, outside a planner
                      \* run: the function, its arguments, what it returned

dbVars == <<query_sessions, planner_traces, search_logs, answer_snapshots,
            evidence, query_cache>>
vars == <<ctx, task, query_sessions, planner_traces, search_logs,
          answer_snapshots, evidence, query_cache, now, research_calls,
          cache_lookups, wiring, api, call>>
envVars == <<wiring, api, call>>

\* a session wired with the stubs of the test suites: any question, any
\* max_attempts, any research result and decision, a database that can fail
FullWiring ==
    [questions |-> Questions, max_attempts |-> MaxAttemptsChoices,
     results |-> ResearchResults, verifier |-> "stub", decisions |-> Decisions,
     faults |-> TRUE, raises |-> {"ResearchError"}]

\* a session nobody submits
NoWiring ==
    [questions |-> {}, max_attempts |-> {}, results |-> {}, verifier |-> "stub",
     decisions |-> {}, faults |-> FALSE, raises |-> {}]

\* the database calls of a handler that can fail for session s
Faults(s, calls) == IF wiring[s].faults THEN {"none"} \cup calls ELSE {"none"}

\* no component is called on its own
NoCall == [fn |-> "none", args |-> Null, ret |-> Null]

\* a call that has not returned yet
Pending == [pending |-> TRUE]

\* an HTTP response: status code, HTTPException detail, JSON body
Response(endpoint, sid, code, detail, body) ==
    [endpoint |-> endpoint, session_id |-> sid, code |-> code,
     detail |-> detail, body |-> body]

NoResponse == Response(None, None, 0, None, [kind |-> "none"])

NoPlanner == [current_state |-> None]

\* f"Planner execution failed: {type(exc).__name__}"
ExecutionFailedReason(exc) ==
    CASE exc = "OperationalError" -> "Planner execution failed: OperationalError"
      [] exc = "ResearchError" -> "Planner execution failed: ResearchError"
      [] exc = "IntegrityError" -> "Planner execution failed: IntegrityError"
      [] exc = "VerificationError" -> "Planner execution failed: VerificationError"
      [] exc = "AttributeError" -> "Planner execution failed: AttributeError"
      [] exc = "ValueError" -> "Planner execution failed: ValueError"
      [] OTHER -> "Planner execution failed: Exception"

\* PlannerContext.__init__ and PlannerAgent.__init__
NewPlanner(question, max_attempts) ==
    [ question |-> question,
      current_state |-> "INIT",
      attempt_count |-> 0,
      max_attempts |-> max_attempts,
      strategy_history |-> <<>>,
      current_strategy |-> BASE,
      last_confidence |-> None,
      last_decision |-> None,
      no_progress_count |-> 0,
      num_docs |-> INITIAL_NUM_DOCS,
      max_docs |-> MAX_DOCS,
      search_count |-> 0,
      budget_exhausted_reason |-> None,
      final_result |-> Null,
      research_result |-> Null,
      last_query_hash |-> Null,
      \* QueryCacheRepository.store in progress: the utcnow() its first
      \* statement has read (0 outside it), then what db.merge read together
      \* with that time; Null outside it
      store_utcnow |-> 0,
      cache_merge |-> Null,
      \* position inside the handler of current_state: "top" in the loop of
      \* run, else the database call the handler makes next
      pc |-> "top" ]

\* ------------------------------------------------------------ repositories
\* QuerySessionRepository.create
CreateSession(qs, sid, question) ==
    [qs EXCEPT ![sid] = [question |-> question, status |-> "INIT",
                         final_confidence_level |-> None,
                         final_confidence_reason |-> None]]

\* QuerySessionRepository.update_status: UPDATE ... WHERE id = sid
UpdateStatus(qs, sid, status) ==
    IF qs[sid] = Null THEN qs ELSE [qs EXCEPT ![sid].status = status]

\* update_final_status storing the confidence fields but not the status
UpdateFinalStatus_KeepsStatus(qs, sid, status, level, reason) ==
    IF qs[sid] = Null THEN qs
    ELSE [qs EXCEPT ![sid].final_confidence_level = level,
                    ![sid].final_confidence_reason = reason]

\* QuerySessionRepository.update_final_status
UpdateFinalStatus(qs, sid, status, level, reason) ==
    IF qs[sid] = Null THEN qs
    ELSE [qs EXCEPT ![sid].status = status,
                    ![sid].final_confidence_level = level,
                    ![sid].final_confidence_reason = reason]

\* get_valid comparing expires_at >= utcnow()
GetValid_Inclusive(cache, query_hash, t) ==
    LET rows == {r \in cache : r.query_hash = query_hash /\ r.expires_at >= t}
    IN  IF rows = {} THEN Null ELSE CHOOSE r \in rows : TRUE

\* QueryCacheRepository.get_valid: the row for the hash, if it has not expired
GetValid(cache, query_hash, t) ==
    LET rows == {r \in cache : r.query_hash = query_hash /\ r.expires_at > t}
    IN  IF rows = {} THEN Null ELSE CHOOSE r \in rows : TRUE

\* QueryCacheRepository.set: merge on the primary key query_hash
SetCache(cache, query_hash, sid, expires_at) ==
    {r \in cache : r.query_hash # query_hash}
        \cup {[query_hash |-> query_hash, session_id |-> sid,
               expires_at |-> expires_at]}

\* QueryCacheRepository.store: the same merge, expires_at = utcnow() + ttl
StoreCache(cache, query_hash, sid, ttl_seconds, t) ==
    SetCache(cache, query_hash, sid, t + ttl_seconds)

\* an answer repository whose create stores nothing
CreateAnswer_Dropped(table, sid, result, t) == table

\* AnswerSnapshotRepository.create; created_at is the server default now()
CreateAnswer(table, sid, result, t) ==
    Append(table, [session_id |-> sid, answer_text |-> result.answer,
                   confidence_level |-> result.confidence_level,
                   confidence_reason |-> result.confidence_reason,
                   created_at |-> t])

\* get_latest_by_session without the filter on session_id
GetLatestBySession_AnySession(table, sid) ==
    IF table = <<>> THEN {Null}
    ELSE {table[i] : i \in {j \in DOMAIN table : \A h \in DOMAIN table :
                                 table[h].created_at <= table[j].created_at}}

\* AnswerSnapshotRepository.get_latest_by_session: the rows the query
\* `ORDER BY created_at DESC` + first() may return, None when the session
\* has no row; the order of rows with equal created_at is the database's
GetLatestBySession(table, sid) ==
    LET rows == SelectRows(table, sid)
    IN  IF rows = <<>> THEN {Null}
        ELSE {rows[i] : i \in {j \in DOMAIN rows : \A h \in DOMAIN rows :
                                   rows[h].created_at <= rows[j].created_at}}

\* bulk_create adding every record twice
BulkCreate_Twice(table, sid, items) ==
    LET rows == [i \in DOMAIN items |->
                    [session_id |-> sid, claim_text |-> items[i].claim,
                     verification_status |-> items[i].status,
                     source_urls |-> items[i].sources]]
    IN  table \o rows \o rows

\* EvidenceRepository.bulk_create
BulkCreate(table, sid, items) ==
    table \o [i \in DOMAIN items |->
                [session_id |-> sid, claim_text |-> items[i].claim,
                 verification_status |-> items[i].status,
                 source_urls |-> items[i].sources]]

\* EvidenceRepository.list_by_session
ListBySession(table, sid) == SelectRows(table, sid)

\* PlannerTraceRepository.log
LogTrace(table, sid, c, decision) ==
    Append(table, [session_id |-> sid, attempt_number |-> c.attempt_count,
                   planner_state |-> c.current_state,
                   verification_decision |-> decision.decision,
                   strategy_used |-> c.current_strategy,
                   num_docs |-> c.num_docs,
                   stop_reason |-> decision.reason])

\* SearchLogRepository.log
LogSearch(table, sid, c, query_used) ==
    Append(table, [session_id |-> sid, attempt_number |-> c.attempt_count,
                   query_used |-> query_used, num_docs |-> c.num_docs,
                   success |-> TRUE])

\* ---------------------------------------------------------- planner logic
\* PlannerContext.record_strategy
RecordStrategy(c, strategy) ==
    [c EXCEPT !.strategy_history = Append(@, strategy),
              !.current_strategy = strategy]

\* record_progress counting the first output as a repetition
RecordProgress_CountFirst(c, confidence, decision) ==
    [c EXCEPT !.no_progress_count =
                  IF \/ c.last_decision = None
                     \/ confidence = c.last_confidence /\ decision = c.last_decision
                  THEN @ + 1 ELSE 0,
              !.last_confidence = confidence,
              !.last_decision = decision]

\* PlannerContext.record_progress
RecordProgress(c, confidence, decision) ==
    [c EXCEPT !.no_progress_count =
                  IF confidence = c.last_confidence /\ decision = c.last_decision
                  THEN @ + 1 ELSE 0,
              !.last_confidence = confidence,
              !.last_decision = decision]

\* _update_strategy, primary selection
PreferredStrategy(confidence_reason, recommendation) ==
    IF ContainsSingleSource(confidence_reason) THEN BROADEN_QUERY
    ELSE IF ContainsConflict(confidence_reason) THEN AUTHORITATIVE_SITES
    ELSE IF recommendation # None THEN RESEARCH_FOCUSED
    ELSE BROADEN_QUERY

\* _update_strategy, fallback: first strategy of STRATEGY_ORDER not in used
FirstUnused(used) ==
    LET idx == {i \in DOMAIN STRATEGY_ORDER : STRATEGY_ORDER[i] \notin used}
    IN  IF idx = {} THEN None
        ELSE STRATEGY_ORDER[CHOOSE i \in idx : \A j \in idx : i <= j]

\* PlannerAgent._update_strategy
UpdateStrategy(c, confidence_reason, recommendation) ==
    LET used == Range(c.strategy_history)
        preferred == PreferredStrategy(confidence_reason, recommendation)
    IN  IF preferred \notin used THEN RecordStrategy(c, preferred)
        ELSE IF FirstUnused(used) # None THEN RecordStrategy(c, FirstUnused(used))
        ELSE [c EXCEPT !.current_state = "FAILED"]

\* _should_stop without the max_attempts check
ShouldStop_NoMaxCheck(c) ==
    IF c.no_progress_count >= NO_PROGRESS_LIMIT THEN NO_PROGRESS_REASON ELSE None

\* _should_stop comparing attempt_count > max_attempts
ShouldStop_StrictMax(c) ==
    IF c.attempt_count > c.max_attempts THEN MAX_ATTEMPTS_REASON
    ELSE IF c.no_progress_count >= NO_PROGRESS_LIMIT THEN NO_PROGRESS_REASON
    ELSE None

\* _should_stop without the no-progress check
ShouldStop_NoProgressCheck(c) ==
    IF c.attempt_count >= c.max_attempts THEN MAX_ATTEMPTS_REASON ELSE None

\* PlannerAgent._should_stop: the reason it sets, None when it returns False
ShouldStop(c) ==
    IF c.attempt_count >= c.max_attempts THEN MAX_ATTEMPTS_REASON
    ELSE IF c.no_progress_count >= NO_PROGRESS_LIMIT THEN NO_PROGRESS_REASON
    ELSE None

\* _handle_verify, "Escalate docs"
EscalateDocs(c) ==
    IF c.num_docs < c.max_docs THEN Min(c.num_docs * 2, c.max_docs) ELSE c.num_docs

\* the RETRY branch without the _should_stop check
RetryBranch_Unchecked(c, confidence_reason, recommendation) ==
    LET c1 == [c EXCEPT !.attempt_count = @ + 1, !.num_docs = EscalateDocs(c)]
        c2 == UpdateStrategy(c1, confidence_reason, recommendation)
    IN  [c2 EXCEPT !.current_state = "RESEARCH"]

\* the RETRY branch without "self.context.attempt_count += 1"
RetryBranch_NoIncrement(c, confidence_reason, recommendation) ==
    IF ShouldStop(c) # None
    THEN [c EXCEPT !.budget_exhausted_reason = ShouldStop(c),
                   !.current_state = "FAILED"]
    ELSE LET c1 == [c EXCEPT !.num_docs = EscalateDocs(c)]
             c2 == UpdateStrategy(c1, confidence_reason, recommendation)
         IN  [c2 EXCEPT !.current_state = "RESEARCH"]

\* _handle_verify, the RETRY branch on the planner context
RetryBranch(c, confidence_reason, recommendation) ==
    IF ShouldStop(c) # None
    THEN [c EXCEPT !.budget_exhausted_reason = ShouldStop(c),
                   !.current_state = "FAILED"]
    ELSE LET c1 == [c EXCEPT !.attempt_count = @ + 1, !.num_docs = EscalateDocs(c)]
             c2 == UpdateStrategy(c1, confidence_reason, recommendation)
         IN  [c2 EXCEPT !.current_state = "RESEARCH"]

\* a RETRY that sends the stored status back to INIT
NextStatus_RestartOnRetry(decision) ==
    IF decision = RETRY THEN "INIT" ELSE "SYNTHESIZE"

\* _handle_verify: the status it stores once the decision is acted upon
NextStatus(decision) ==
    IF decision = RETRY THEN "RESEARCH" ELSE "SYNTHESIZE"

\* the STOP branch routed to the failure path
StopBranch_ToFailed(c, d) ==
    [c EXCEPT !.current_state = "FAILED",
              !.budget_exhausted_reason = d.reason]

\* _handle_verify, the STOP branch on the planner context
StopBranch(c, d) ==
    [c EXCEPT !.current_state = "SYNTHESIZE",
              !.research_result.notes = d.reason]

\* the cache consulted on every attempt
ShouldLookupCache_EveryAttempt(c) == c.attempt_count >= 1

\* _handle_research: the cache is consulted only on retries
ShouldLookupCache(c) == c.attempt_count > 1

\* the cache write without the ACCEPT condition
ShouldStoreCache_AnyDecision(c) == c.last_query_hash # Null

\* _handle_synthesize: "Store cache only on ACCEPT (never on STOP)"
ShouldStoreCache(c) == c.last_decision = ACCEPT /\ c.last_query_hash # Null

\* the cached result rebuilt without the cached session's evidence
CachedResult_NoEvidence(snapshot, rows) ==
    [answer |-> snapshot.answer_text,
     confidence_level |-> snapshot.confidence_level,
     confidence_reason |-> snapshot.confidence_reason,
     evidence |-> <<>>,
     notes |-> None]

\* _handle_research, the research result rebuilt from a cached session
CachedResult(snapshot, rows) ==
    [answer |-> snapshot.answer_text,
     confidence_level |-> snapshot.confidence_level,
     confidence_reason |-> snapshot.confidence_reason,
     evidence |-> [i \in DOMAIN rows |->
                     [claim |-> rows[i].claim_text,
                      status |-> rows[i].verification_status,
                      sources |-> rows[i].source_urls]],
     notes |-> None]

\* ------------------------------------------------------ verification agent
\* VerificationStatus
AGREEMENT == "AGREEMENT"
CONFLICT == "CONFLICT"
SINGLE_SOURCE == "SINGLE_SOURCE"
VerificationStatus == {AGREEMENT, CONFLICT, SINGLE_SOURCE}

\* what a call gives back: a value, or the class of the exception it raised
Returned(value) == [raised |-> None, value |-> value]
Raised(exc) == [raised |-> exc, value |-> Null]

Decision(decision, reason, recommendation) ==
    [decision |-> decision, reason |-> reason, recommendation |-> recommendation]

\* decide giving up only after max_attempts has been passed
Exhausted_Late(attempt, max_attempts) == attempt > max_attempts

\* VerificationAgent.decide: `attempt >= max_attempts`
Exhausted(attempt, max_attempts) == attempt >= max_attempts

\* VerificationAgent.decide; an item of verified_claims is a VerifiedClaim
\* (kind "VerifiedClaim", read through its attribute status) or an evidence
\* dict (kind "dict", which has no attribute status)
Decide(verified_claims, confidence_level, attempt, max_attempts) ==
    LET statuses == {verified_claims[i].status : i \in DOMAIN verified_claims}
    IN
    IF verified_claims = <<>>
    THEN IF Exhausted(attempt, max_attempts)
         THEN Returned(Decision(STOP,
                 "No verifiable claims could be found after multiple attempts.", None))
         ELSE Returned(Decision(RETRY,
                 "No verifiable claims were found. Additional sources may help.",
                 "Search broader or alternative sources."))
    ELSE IF \E i \in DOMAIN verified_claims : verified_claims[i].kind = "dict"
    THEN Raised("AttributeError")
    ELSE IF CONFLICT \in statuses
    THEN IF Exhausted(attempt, max_attempts)
         THEN Returned(Decision(STOP,
                 "Conflicting evidence persists despite additional verification attempts.",
                 None))
         ELSE Returned(Decision(RETRY,
                 "Sources provide conflicting evidence. Further verification may resolve discrepancies.",
                 "Seek additional independent sources."))
    ELSE IF confidence_level = "HIGH"
    THEN Returned(Decision(ACCEPT,
            "Multiple independent sources agree on the same claim. Further verification is unlikely to change the conclusion.",
            None))
    ELSE IF confidence_level = "MEDIUM"
    THEN Returned(Decision(ACCEPT,
            "Evidence from multiple sources broadly supports the conclusion, though agreement is limited.",
            None))
    ELSE IF confidence_level = "LOW"
    THEN IF Exhausted(attempt, max_attempts)
         THEN Returned(Decision(STOP,
                 "Confidence remains low after repeated attempts. Further verification is unlikely to improve certainty.",
                 None))
         ELSE Returned(Decision(RETRY,
                 "The conclusion is based on limited evidence. Additional independent sources may improve confidence.",
                 "Search for authoritative or corroborating sources."))
    ELSE Returned(Decision(STOP, "Unable to determine verification status reliably.", None))

\* ------------------------------------------------------- confidence scorer
\* number of claims with a status
CountStatus(verified_claims, status) ==
    Cardinality({i \in DOMAIN verified_claims : verified_claims[i].status = status})

\* all_sources: the union of the claims' source lists
AllSources(verified_claims) ==
    UNION {verified_claims[i].sources : i \in DOMAIN verified_claims}

\* a scorer that wants more than half of the claims to agree
Majority_Strict(agreement_count, total_claims) == 2 * agreement_count > total_claims

\* ConfidenceScorer.score: `agreement_count >= total_claims * 0.5`
Majority(agreement_count, total_claims) == 2 * agreement_count >= total_claims

Confidence(level, reason) == [confidence_level |-> level, confidence_reason |-> reason]

\* ConfidenceScorer.score; ToString is the f-string's rendering of a count
Score(verified_claims) ==
    LET agreement_count == CountStatus(verified_claims, AGREEMENT)
        conflict_count == CountStatus(verified_claims, CONFLICT)
        single_source_count == CountStatus(verified_claims, SINGLE_SOURCE)
        total_claims == Len(verified_claims)
        source_count == Cardinality(AllSources(verified_claims))
    IN
    IF verified_claims = <<>>
    THEN Confidence("LOW", "No verified claims available.")
    ELSE IF conflict_count > 0
    THEN Confidence("LOW", "Conflicting information detected in "
                               \o ToString(conflict_count) \o " claim(s).")
    ELSE IF single_source_count = total_claims
    THEN Confidence("LOW", "All " \o ToString(total_claims)
                      \o " claim(s) from single sources only (no corroboration).")
    ELSE IF agreement_count = 0
    THEN Confidence("LOW", "No claims have multi-source agreement.")
    ELSE IF Majority(agreement_count, total_claims) /\ source_count >= 2
    THEN Confidence("HIGH", "Strong agreement: " \o ToString(agreement_count)
                      \o "/" \o ToString(total_claims)
                      \o " claims corroborated by multiple independent sources ("
                      \o ToString(source_count) \o " total).")
    ELSE IF agreement_count > 0
    THEN Confidence("MEDIUM", "Partial corroboration: " \o ToString(agreement_count)
                      \o "/" \o ToString(total_claims) \o " claims agreed upon.")
    ELSE Confidence("LOW", "Insufficient evidence for confident answer.")

\* ------------------------------------------------------ verification engine
\* utils.polarity
POSITIVE_KEYWORDS == {"reduce", "decrease", "lower", "decline", "fall", "slow",
                      "limit", "control", "curb"}
NEGATIVE_KEYWORDS == {"increase", "rise", "raise", "boost", "accelerate",
                      "worsen", "expand"}

\* str.lower on the words claims are made of
LowerWord(word) == IF word = "Increase" THEN "increase" ELSE word

\* `keyword in text` for a lower-case word of a text: the keywords that are
\* substrings of it
KeywordsIn(word) ==
    CASE word = "reduces" -> {"reduce"}
      [] word = "increase" -> {"increase"}
      [] word = "slower" -> {"slow", "lower"}
      [] OTHER -> {}

\* sum(word in text for word in keywords); a text is a sequence of words
Hits(text, keywords) ==
    Cardinality({k \in keywords :
                    \E i \in DOMAIN text : k \in KeywordsIn(LowerWord(text[i]))})

\* utils.polarity.polarity_score
PolarityScore(text) ==
    LET positive_hits == Hits(text, POSITIVE_KEYWORDS)
        negative_hits == Hits(text, NEGATIVE_KEYWORDS)
    IN  IF positive_hits > negative_hits THEN 1
        ELSE IF negative_hits > positive_hits THEN -1
        ELSE 0

\* VerificationEngine._is_conflicting
IsConflicting(claim_a, claim_b) == PolarityScore(claim_a) * PolarityScore(claim_b) < 0

\* ClaimMatcher.group_similar_claims, the loop over the groups for claims[i]:
\* the claim joins the first group whose representative it is similar to,
\* else it opens a group. topic stands for embeddings[i], the embedding of the
\* claim at position i: two embeddings are similar (cosine similarity >=
\* SIMILARITY_THRESHOLD) when they are the same topic. The representative's
\* embedding is embeddings[claims.index(group[0])]: that of the first claim of
\* the list equal to the group's first claim, an ExtractedClaim being equal
\* to another when claim and source_url are
RECURSIVE PlaceClaim(_, _, _, _)
PlaceClaim(groups, claims, i, k) ==
    IF k > Len(groups) THEN Append(groups, <<claims[i]>>)
    ELSE
    LET Equal(a, b) == a.claim = b.claim /\ a.source_url = b.source_url
        rep_idx == CHOOSE j \in DOMAIN claims :
                       /\ Equal(claims[j], groups[k][1])
                       /\ \A h \in 1..(j - 1) : ~Equal(claims[h], groups[k][1])
    IN  IF claims[i].topic = claims[rep_idx].topic
        THEN [groups EXCEPT ![k] = Append(@, claims[i])]
        ELSE PlaceClaim(groups, claims, i, k + 1)

RECURSIVE GroupFrom(_, _, _)
GroupFrom(groups, claims, i) ==
    IF i > Len(claims) THEN groups
    ELSE GroupFrom(PlaceClaim(groups, claims, i, 1), claims, i + 1)

GroupSimilarClaims(claims) == GroupFrom(<<>>, claims, 1)

\* the source URLs of a group
GroupSources(group) == {group[i].source_url : i \in DOMAIN group}

\* a verifier that takes a group of one claim for a single source
SingleSourced_ByCount(group) == Len(group) = 1

\* VerificationEngine.verify: `len(sources) == 1`
SingleSourced(group) == Cardinality(GroupSources(group)) = 1

\* VerificationEngine.verify, the body of the loop over the groups
VerifyGroup(group) ==
    LET conflict_found ==
            \E i \in DOMAIN group : \E j \in DOMAIN group :
                i < j /\ IsConflicting(group[i].claim, group[j].claim)
        status == IF SingleSourced(group) THEN SINGLE_SOURCE
                  ELSE IF conflict_found THEN CONFLICT
                  ELSE AGREEMENT
    IN  [claim |-> group[1].claim, sources |-> GroupSources(group),
         status |-> status]

\* VerificationEngine.verify
Verify(extracted_claims) ==
    LET grouped_claims == GroupSimilarClaims(extracted_claims)
    IN  [k \in DOMAIN grouped_claims |-> VerifyGroup(grouped_claims[k])]

\* --------------------------------------------------------- web environment
\* WebEnvironment.MAX_PAGES
MAX_PAGES == 5

\* WebEnvironment.run: the limit handed to the search adapter; num_docs is
\* <<>> for None and <<n>> for the integer n
SearchLimit(num_docs) ==
    IF num_docs = <<>> THEN MAX_PAGES
    ELSE LET capped == Min(num_docs[1], MAX_PAGES)
         IN  IF capped >= 1 THEN capped ELSE 1

\* WebEnvironment.run, the loop over the search results from result i on;
\* result.page says what fetching and extracting its URL gives
RECURSIVE ProcessResults(_, _, _)
ProcessResults(results, i, state) ==
    IF i > Len(results) THEN Returned(state)
    ELSE
    LET result == results[i]
        url == result.url
    IN  \* url = result["url"]
        IF url = "no url key" THEN Raised("KeyError")
        \* is_blocked_domain(url): urlparse(url)
        ELSE IF url = "http://[bad" THEN Raised("ValueError")
        ELSE IF url = "http://x.blocked.example/" THEN ProcessResults(results, i + 1, state)
        ELSE IF url \in Range(state.visited_urls)
        THEN ProcessResults(results, i + 1, state)
        ELSE IF result.page = "fetch_raises"
        THEN ProcessResults(results, i + 1,
                 [state EXCEPT !.errors = Append(@, <<url, "fetch failed">>)])
        ELSE IF result.page = "extract_raises"
        THEN ProcessResults(results, i + 1,
                 [state EXCEPT !.errors = Append(@, <<url, "extract failed">>)])
        ELSE IF result.page = "short"
        THEN ProcessResults(results, i + 1, state)
        ELSE ProcessResults(results, i + 1,
                 [state EXCEPT !.visited_urls = Append(@, url),
                               !.documents = Append(@, [url |-> url])])

\* WebEnvironment.run: search is "raises" when the adapter throws, else the
\* adapter returns results; gives the documents, the error list and the
\* limit the adapter was called with
Run(search, results, num_docs) ==
    IF search = "raises"
    THEN Returned([documents |-> <<>>, errors |-> <<"search failed">>,
                   limit |-> SearchLimit(num_docs)])
    ELSE LET out == ProcessResults(results, 1, [visited_urls |-> <<>>, documents |-> <<>>,
            errors |-> <<>>])
         IN  IF out.raised # None THEN out
             ELSE Returned([documents |-> out.value.documents,
                            errors |-> out.value.errors,
                            limit |-> SearchLimit(num_docs)])

\* ----------------------------------------------------------- research agent
\* a research agent that reports MEDIUM confidence when it found no claim
NoClaimsResult_Medium ==
    [answer |-> "Insufficient verified information is available to answer this question.",
     confidence_level |-> "MEDIUM",
     confidence_reason |-> "No relevant claims could be extracted from available sources.",
     evidence |-> <<>>,
     notes |-> "Further investigation is recommended."]

\* ResearchAgent.research when no relevant claim was extracted
NoClaimsResult ==
    [answer |-> "Insufficient verified information is available to answer this question.",
     confidence_level |-> "LOW",
     confidence_reason |-> "No relevant claims could be extracted from available sources.",
     evidence |-> <<>>,
     notes |-> "Further investigation is recommended."]

\* ResearchAgent.research over the documents of WebEnvironment.run and
\* AnswerSynthesizer.synthesize (the class in effect, the second of the
\* module); extracted is what the claim extractor and the relevance filter
\* leave of the documents' text, llm is "raises" when llm_complete raises
\* (ValueError without GEMINI_API_KEY) and else the text it returns
Research(search, results, num_docs, extracted, llm) ==
    LET ran == Run(search, results, num_docs)
        verified_claims == Verify(extracted)
        confidence == Score(verified_claims)
    IN  IF ran.raised # None THEN ran
        ELSE IF ran.value.documents = <<>> \/ extracted = <<>>
        THEN Returned(NoClaimsResult)
        \* AnswerSynthesizer.synthesize: `if not verified_claims`
        ELSE IF verified_claims = <<>>
        THEN Returned([answer |-> "Insufficient verified information is available to answer this question.",
                       confidence_level |-> "LOW",
                       confidence_reason |-> "No verifiable claims were found.",
                       evidence |-> <<>>,
                       notes |-> "No relevant claims could be extracted."])
        ELSE IF llm = "raises" THEN Raised("ValueError")
        ELSE Returned(
               [answer |-> llm,
                confidence_level |-> confidence.confidence_level,
                confidence_reason |-> confidence.confidence_reason,
                evidence |-> [k \in DOMAIN verified_claims |->
                                 [claim |-> verified_claims[k].claim,
                                  status |-> verified_claims[k].status,
                                  sources |-> verified_claims[k].sources]],
                \* generate_notes
                notes |-> IF confidence.confidence_level = "LOW"
                          THEN "The available evidence is limited or conflicting. Further independent confirmation is recommended."
                          ELSE None])

\* ------------------------------------------------------------------- Init
\* The database holds either nothing or one earlier session PREV that was
\* accepted and cached: on its first attempt (seed "base") or on its second
\* attempt after one RETRY (seed "broaden"); "broaden_old" is the same run
\* finished TickSeconds earlier.
Seeds == {"empty", "base", "broaden", "broaden_old"}

\* The seed "base" with one more cache row, for the fingerprint of a second
\* attempt, that references ORPHAN: a session that does not exist, or one
\* that exists without an answer snapshot.
DanglingSeeds == {"missing_session", "missing_answer"}

PrevResult ==
    [answer |-> "prior answer", confidence_level |-> "HIGH",
     confidence_reason |-> REASON_PRIOR, evidence |-> <<EV2>>, notes |-> None]

PrevTrace(attempt, decision, reason, strategy, num_docs) ==
    [session_id |-> PREV, attempt_number |-> attempt, planner_state |-> "VERIFY",
     verification_decision |-> decision, strategy_used |-> strategy,
     num_docs |-> num_docs, stop_reason |-> reason]

PrevSearch(attempt, strategy, num_docs) ==
    [session_id |-> PREV, attempt_number |-> attempt,
     query_used |-> ModifyQuery(Q2, strategy), num_docs |-> num_docs,
     success |-> TRUE]

SeedDb(seed) ==
    LET empty == [id \in AllIds |-> Null]
        second == EscalateDocs([num_docs |-> INITIAL_NUM_DOCS, max_docs |-> MAX_DOCS])
        first_only == seed \in {"base", "missing_session", "missing_answer"}
        prev == UpdateFinalStatus(CreateSession(empty, PREV, Q2), PREV, "DONE",
                                  PrevResult.confidence_level,
                                  PrevResult.confidence_reason)
    IN
    /\ query_sessions =
         CASE seed = "empty" -> empty
           [] seed = "missing_answer" ->
                UpdateFinalStatus(CreateSession(prev, ORPHAN, Q2), ORPHAN, "DONE",
                                  "HIGH", "Test")
           [] OTHER -> prev
    /\ planner_traces =
         CASE seed = "empty" -> <<>>
           [] first_only ->
                <<PrevTrace(1, ACCEPT, "accepted", BASE, INITIAL_NUM_DOCS)>>
           [] OTHER ->
                <<PrevTrace(1, RETRY, "retry", BASE, INITIAL_NUM_DOCS),
                  PrevTrace(2, ACCEPT, "accepted", BROADEN_QUERY, second)>>
    /\ search_logs =
         CASE seed = "empty" -> <<>>
           [] first_only -> <<PrevSearch(1, BASE, INITIAL_NUM_DOCS)>>
           [] OTHER -> <<PrevSearch(1, BASE, INITIAL_NUM_DOCS),
                         PrevSearch(2, BROADEN_QUERY, second)>>
    /\ answer_snapshots =
         IF seed = "empty" THEN <<>>
         ELSE CreateAnswer(<<>>, PREV, PrevResult,
                           IF seed = "broaden_old" THEN 0 - TickSeconds ELSE 0)
    /\ evidence =
         IF seed = "empty" THEN <<>> ELSE BulkCreate(<<>>, PREV, PrevResult.evidence)
    /\ query_cache =
         CASE seed = "empty" -> {}
           [] seed = "base" ->
                StoreCache({}, ComputeQueryHash(Q2, BASE, INITIAL_NUM_DOCS), PREV,
                           CACHE_TTL_SECONDS, 0)
           [] first_only ->
                StoreCache(StoreCache({}, ComputeQueryHash(Q2, BASE, INITIAL_NUM_DOCS),
                                      PREV, CACHE_TTL_SECONDS, 0),
                           ComputeQueryHash(Q2, BROADEN_QUERY, second), ORPHAN,
                           CACHE_TTL_SECONDS, 0)
           [] seed = "broaden" ->
                StoreCache({}, ComputeQueryHash(Q2, BROADEN_QUERY, second), PREV,
                           CACHE_TTL_SECONDS, 0)
           [] OTHER ->
                StoreCache({}, ComputeQueryHash(Q2, BROADEN_QUERY, second), PREV,
                           CACHE_TTL_SECONDS, 0 - TickSeconds)

InitState(seeds, wirings, calls) ==
    /\ call \in calls
    /\ wiring = wirings
    /\ api = [calls |-> 0, last |-> NoResponse,
              request |-> [token |-> None, header |-> None],
              reading |-> Null]
    /\ ctx = [s \in Sessions |-> NoPlanner]
    /\ task = [s \in Sessions |-> [pos |-> "unsubmitted", question |-> <<>>, exc |-> None,
                                   failed_call |-> None]]
    /\ now = 0
    /\ research_calls = <<>>
    /\ cache_lookups = <<>>
    /\ \E seed \in seeds : SeedDb(seed)

\* the system before the first request
InitSeeded(seeds, wirings) == InitState(seeds, wirings, {NoCall})

\* one client request, served by a planner wired with stubs
OneSession == [s \in Sessions |-> IF s = "s1" THEN FullWiring ELSE NoWiring]

Init == InitSeeded(Seeds, OneSession)

\* ---------------------------------------------------------------- actions
\* an exception leaves PlannerAgent.run: the planner object is dropped and
\* _run_planner_background is in its except clause
Raise(s, exc) ==
    /\ task' = [task EXCEPT ![s].pos = "raised", ![s].exc = exc]
    /\ ctx' = [ctx EXCEPT ![s] = NoPlanner]

Running(s, state) == task[s].pos = "running" /\ ctx[s].current_state = state

\* submit_query answers 503 when the database fails
UNAVAILABLE_DETAIL == "Database temporarily unavailable. Please retry later."

\* submit_query: background_tasks.add_task placed before the database work
Scheduled_BeforeCreate(fault) == TRUE

\* submit_query: background_tasks.add_task is reached only when create returned
Scheduled(fault) == fault = "none"

\* submit_query answering from the cache: when the question's first-attempt
\* fingerprint is cached, the cached session is returned and nothing is created
SubmitQuery_ServeCached(s) ==
    /\ task[s].pos = "unsubmitted"
    /\ UNCHANGED <<ctx, planner_traces, search_logs, answer_snapshots, evidence,
                   query_cache, now, research_calls, cache_lookups, wiring, call>>
    /\ \E question \in wiring[s].questions :
         LET cache == GetValid(query_cache,
                               ComputeQueryHash(question, BASE, INITIAL_NUM_DOCS), now)
         IN  /\ query_sessions' =
                  IF cache # Null THEN query_sessions
                  ELSE CreateSession(query_sessions, s, question)
             /\ task' = [task EXCEPT
                            ![s].pos = IF cache # Null THEN "served" ELSE "scheduled",
                            ![s].question = question]
             /\ api' = [api EXCEPT !.last =
                            Response("submit", s, 200, None,
                                     [kind |-> "query",
                                      session_id |-> IF cache # Null
                                                     THEN cache.session_id ELSE s,
                                      status |-> "PROCESSING"])]

\* routes.submit_query: create the session row, schedule the background task.
\* QuerySessionRepository.create can fail in db.commit (nothing is stored, the
\* handler rolls back) or in db.refresh (the row is stored already).
SubmitQuery(s) ==
    /\ task[s].pos = "unsubmitted"
    /\ UNCHANGED <<ctx, planner_traces, search_logs, answer_snapshots, evidence,
                   query_cache, now, research_calls, cache_lookups, wiring, call>>
    /\ \E question \in wiring[s].questions :
       \E fault \in Faults(s, {"commit", "refresh"}) :
         /\ query_sessions' =
              IF fault = "commit" THEN query_sessions
              ELSE CreateSession(query_sessions, s, question)
         /\ task' = [task EXCEPT
                        ![s].pos = IF Scheduled(fault) THEN "scheduled"
                                   ELSE "rejected",
                        ![s].failed_call = IF fault = "none" THEN None ELSE fault,
                        ![s].question = IF Scheduled(fault) THEN question ELSE <<>>]
         /\ api' = [api EXCEPT !.last =
                        IF fault = "none"
                        THEN Response("submit", s, 200, None,
                                      [kind |-> "query", session_id |-> s,
                                       status |-> "PROCESSING"])
                        ELSE Response("submit", None, 503, UNAVAILABLE_DETAIL,
                                      [kind |-> "none"])]

\* routes._run_planner_background up to planner.run: build the planner
StartTask(s) ==
    /\ task[s].pos = "scheduled"
    /\ UNCHANGED envVars
    /\ \E max_attempts \in wiring[s].max_attempts :
         ctx' = [ctx EXCEPT ![s] = NewPlanner(task[s].question, max_attempts)]
    /\ task' = [task EXCEPT ![s].pos = "running"]
    /\ UNCHANGED <<dbVars, now, research_calls, cache_lookups>>

\* PlannerAgent._handle_init
HandleInit(s) ==
    /\ Running(s, "INIT")
    /\ UNCHANGED envVars
    /\ \E fault \in Faults(s, {"update_status"}) :
         IF fault = "none"
         THEN /\ ctx' = [ctx EXCEPT ![s].attempt_count = 1,
                                    ![s].current_strategy = BASE,
                                    ![s].current_state = "RESEARCH"]
              /\ query_sessions' = UpdateStatus(query_sessions, s, "RESEARCH")
              /\ UNCHANGED task
         ELSE /\ Raise(s, "OperationalError")
              /\ UNCHANGED query_sessions
    /\ UNCHANGED <<planner_traces, search_logs, answer_snapshots, evidence,
                   query_cache, now, research_calls, cache_lookups>>

\* PlannerAgent._handle_research, one step per statement on the database or
\* call of the research agent: update_status(RESEARCH) at pc "top"; on a
\* retry, at pc "lookup", the SELECT of get_valid and, for a row found, the
\* reads of the cached session's snapshot and evidence (rows committed before
\* the cache row and never written again); at pc "research" the call of
\* research_agent.research, which returns one of the results of the wiring
\* or raises one of its exceptions; at pc "search_log" the commit of
\* search_repo.log; at pc "research_status" update_status(VERIFY).
HandleResearch(s) ==
    LET c == ctx[s]
        query_hash == ComputeQueryHash(c.question, c.current_strategy, c.num_docs)
        lookup == ShouldLookupCache(c)
        cache == GetValid(query_cache, query_hash, now)
        looked == Append(cache_lookups, [session_id |-> s,
                                         attempt |-> c.attempt_count,
                                         query_hash |-> query_hash,
                                         found |-> cache # Null])
        query_used == ModifyQuery(c.question, c.current_strategy)
        called == Append(research_calls, [session_id |-> s,
                                          attempt |-> c.attempt_count,
                                          question |-> query_used,
                                          num_docs |-> c.num_docs])
    IN
    /\ task[s].pos = "running"
    /\ UNCHANGED envVars
    /\ UNCHANGED <<planner_traces, answer_snapshots, evidence, query_cache, now>>
    /\ CASE c.current_state = "RESEARCH" /\ c.pc = "top" ->
              /\ UNCHANGED <<search_logs, research_calls, cache_lookups>>
              /\ \E fault \in Faults(s, {"update_status"}) :
                   IF fault = "none"
                   THEN /\ query_sessions' = UpdateStatus(query_sessions, s, "RESEARCH")
                        /\ ctx' = [ctx EXCEPT ![s].last_query_hash = query_hash,
                                              ![s].pc = IF lookup THEN "lookup"
                                                        ELSE "research"]
                        /\ UNCHANGED task
                   ELSE /\ Raise(s, "OperationalError")
                        /\ UNCHANGED query_sessions
        [] c.current_state = "RESEARCH" /\ c.pc = "lookup" ->
              /\ UNCHANGED <<query_sessions, search_logs, research_calls>>
              /\ cache_lookups' = looked
              /\ \E fault \in Faults(s, {"cache_read"}) :
                 \E snapshot \in IF cache # Null
                                 THEN GetLatestBySession(answer_snapshots,
                                                         cache.session_id)
                                 ELSE {Null} :
                   CASE fault = "cache_read" ->
                          Raise(s, "OperationalError")
                     [] snapshot # Null ->
                          \* served from the cache, research is not invoked
                          /\ ctx' = [ctx EXCEPT ![s] =
                                 [c EXCEPT !.research_result =
                                      CachedResult(snapshot,
                                          ListBySession(evidence, cache.session_id)),
                                           !.current_state = "VERIFY",
                                           !.pc = "research_status"]]
                          /\ UNCHANGED task
                     [] OTHER ->
                          /\ ctx' = [ctx EXCEPT ![s].pc = "research"]
                          /\ UNCHANGED task
        [] c.current_state = "RESEARCH" /\ c.pc = "research" ->
              /\ UNCHANGED <<query_sessions, search_logs, cache_lookups>>
              /\ research_calls' = called
              /\ \E outcome \in {Returned(r) : r \in wiring[s].results}
                        \cup {Raised(e) : e \in wiring[s].raises} :
                   IF outcome.raised # None
                   THEN Raise(s, outcome.raised)
                   ELSE /\ ctx' = [ctx EXCEPT ![s] =
                               [c EXCEPT !.search_count = @ + 1,
                                         !.research_result = outcome.value,
                                         !.pc = "search_log"]]
                        /\ UNCHANGED task
        [] c.current_state = "RESEARCH" /\ c.pc = "search_log" ->
              /\ UNCHANGED <<query_sessions, research_calls, cache_lookups>>
              /\ \E fault \in Faults(s, {"search_log"}) :
                   IF fault = "none"
                   THEN /\ search_logs' = LogSearch(search_logs, s, c, query_used)
                        /\ ctx' = [ctx EXCEPT ![s].current_state = "VERIFY",
                                              ![s].pc = "research_status"]
                        /\ UNCHANGED task
                   ELSE /\ Raise(s, "OperationalError")
                        /\ UNCHANGED search_logs
        [] c.current_state = "VERIFY" /\ c.pc = "research_status" ->
              /\ UNCHANGED <<search_logs, research_calls, cache_lookups>>
              /\ \E fault \in Faults(s, {"update_status_verify"}) :
                   IF fault = "none"
                   THEN /\ query_sessions' = UpdateStatus(query_sessions, s, "VERIFY")
                        /\ ctx' = [ctx EXCEPT ![s].pc = "top"]
                        /\ UNCHANGED task
                   ELSE /\ Raise(s, "OperationalError")
                        /\ UNCHANGED query_sessions
        [] OTHER -> FALSE

\* _handle_verify: the evidence dicts of the research result, passed to
\* decide as verified_claims
AsVerifiedClaims(items) ==
    [i \in DOMAIN items |-> [kind |-> "dict", status |-> items[i].status]]

\* what verification_agent.decide gives _handle_verify: the stub returns any
\* of its decisions, the VerificationAgent what Decide computes
DecideOutcomes(s, c) ==
    IF wiring[s].verifier = "agent"
    THEN {Decide(AsVerifiedClaims(c.research_result.evidence),
                 c.research_result.confidence_level, c.attempt_count,
                 c.max_attempts)}
    ELSE {Returned(d) : d \in wiring[s].decisions}

\* PlannerAgent._handle_verify, one step per commit: update_status(VERIFY) at
\* pc "top"; at pc "decide" the call of verification_agent.decide,
\* trace_repo.log and the branch on the decision; at pc "verify_status" the
\* update_status of the branch, which the RETRY branch that stops does not
\* reach
HandleVerify(s) ==
    LET c == ctx[s]
        result == c.research_result
        confidence_level == result.confidence_level
        confidence_reason == result.confidence_reason
    IN
    /\ task[s].pos = "running"
    /\ UNCHANGED envVars
    /\ UNCHANGED <<search_logs, answer_snapshots, evidence, query_cache, now,
                   research_calls, cache_lookups>>
    /\ CASE c.current_state = "VERIFY" /\ c.pc = "top" ->
              /\ c.attempt_count <= AttemptCap
              /\ UNCHANGED planner_traces
              /\ \E fault \in Faults(s, {"update_status"}) :
                   IF fault = "none"
                   THEN /\ query_sessions' = UpdateStatus(query_sessions, s, "VERIFY")
                        /\ ctx' = [ctx EXCEPT ![s].pc = "decide"]
                        /\ UNCHANGED task
                   ELSE /\ Raise(s, "OperationalError")
                        /\ UNCHANGED query_sessions
        [] c.current_state = "VERIFY" /\ c.pc = "decide" ->
              /\ UNCHANGED query_sessions
              /\ \E fault \in Faults(s, {"decide", "trace_log"}) :
                 \E outcome \in DecideOutcomes(s, c) :
                   LET d == outcome.value
                       c1 == RecordProgress(c, confidence_level, d.decision)
                       c2 == CASE d.decision = ACCEPT ->
                                    [c1 EXCEPT !.current_state = "SYNTHESIZE"]
                               [] d.decision = STOP -> StopBranch(c1, d)
                               [] OTHER ->
                                    RetryBranch(c1, confidence_reason,
                                                d.recommendation)
                       \* the RETRY branch that stops makes no further
                       \* database call
                       writes_next == d.decision # RETRY \/ ShouldStop(c1) = None
                   IN
                   CASE \* the VerificationAgent raises
                        fault = "none" /\ outcome.raised # None ->
                          /\ Raise(s, outcome.raised)
                          /\ UNCHANGED planner_traces
                     \* the stub of verification_agent.decide raises
                     [] fault = "decide" ->
                          /\ Raise(s, "VerificationError")
                          /\ UNCHANGED planner_traces
                     [] fault = "trace_log" /\ outcome.raised = None ->
                          /\ Raise(s, "OperationalError")
                          /\ UNCHANGED planner_traces
                     [] fault = "none" /\ outcome.raised = None ->
                          /\ planner_traces' = LogTrace(planner_traces, s, c, d)
                          /\ ctx' = [ctx EXCEPT ![s] =
                                 [c2 EXCEPT !.pc = IF writes_next
                                                   THEN "verify_status" ELSE "top"]]
                          /\ UNCHANGED task
                     [] OTHER -> FALSE
        [] c.pc = "verify_status" ->
              /\ UNCHANGED planner_traces
              /\ \E fault \in Faults(s, {"update_status_next"}) :
                   IF fault = "none"
                   THEN /\ query_sessions' =
                             UpdateStatus(query_sessions, s,
                                          NextStatus(c.last_decision))
                        /\ ctx' = [ctx EXCEPT ![s].pc = "top"]
                        /\ UNCHANGED task
                   ELSE /\ Raise(s, "OperationalError")
                        /\ UNCHANGED query_sessions
        [] OTHER -> FALSE

\* PlannerAgent._handle_synthesize, one step per commit: update_status
\* (SYNTHESIZE) at pc "top", answer_repo.create at pc "answer",
\* evidence_repo.bulk_create at pc "evidence" when the result has evidence,
\* at pc "final" update_final_status(DONE) and, when the answer is to be
\* cached, QueryCacheRepository.store: at pc "store" its first statement,
\* which reads the clock for expires_at, at pc "merge" the SELECT of db.merge;
\* final_result is set after the store
HandleSynthesize(s) ==
    LET c == ctx[s]
        result == c.research_result
        caches == ShouldStoreCache(c)
        \* db.merge reads the row of the primary key before it decides
        \* between INSERT and UPDATE
        merged == [found |-> \E r \in query_cache : r.query_hash = c.last_query_hash,
                   at |-> c.store_utcnow]
    IN
    /\ Running(s, "SYNTHESIZE")
    /\ c.cache_merge = Null
    /\ UNCHANGED envVars
    /\ UNCHANGED <<planner_traces, search_logs, now, research_calls, cache_lookups>>
    /\ UNCHANGED query_cache
    /\ CASE c.pc = "top" ->
              /\ UNCHANGED <<answer_snapshots, evidence>>
              /\ \E fault \in Faults(s, {"update_status"}) :
                   IF fault = "update_status"
                   THEN /\ Raise(s, "OperationalError")
                        /\ UNCHANGED query_sessions
                   ELSE /\ query_sessions' =
                             UpdateStatus(query_sessions, s, "SYNTHESIZE")
                        /\ ctx' = IF result = Null
                                  THEN [ctx EXCEPT
                                          ![s].budget_exhausted_reason = NO_RESULT_REASON,
                                          ![s].current_state = "FAILED"]
                                  ELSE [ctx EXCEPT ![s].pc = "answer"]
                        /\ UNCHANGED task
        [] c.pc = "answer" ->
              /\ UNCHANGED <<query_sessions, evidence>>
              /\ \E fault \in Faults(s, {"answer_create"}) :
                   IF fault = "answer_create"
                   THEN /\ Raise(s, "OperationalError")
                        /\ UNCHANGED answer_snapshots
                   ELSE /\ answer_snapshots' =
                             CreateAnswer(answer_snapshots, s, result, now)
                        /\ ctx' = [ctx EXCEPT ![s].pc =
                                      IF result.evidence # <<>> THEN "evidence"
                                      ELSE "final"]
                        /\ UNCHANGED task
        [] c.pc = "evidence" ->
              /\ UNCHANGED <<query_sessions, answer_snapshots>>
              /\ \E fault \in Faults(s, {"bulk_create"}) :
                   IF fault = "bulk_create"
                   THEN /\ Raise(s, "OperationalError")
                        /\ UNCHANGED evidence
                   ELSE /\ evidence' = BulkCreate(evidence, s, result.evidence)
                        /\ ctx' = [ctx EXCEPT ![s].pc = "final"]
                        /\ UNCHANGED task
        [] c.pc = "final" ->
              /\ UNCHANGED <<answer_snapshots, evidence>>
              /\ \E fault \in Faults(s, {"update_final_status"}) :
                   IF fault = "update_final_status"
                   THEN /\ Raise(s, "OperationalError")
                        /\ UNCHANGED query_sessions
                   ELSE /\ query_sessions' =
                             UpdateFinalStatus(query_sessions, s, "DONE",
                                               result.confidence_level,
                                               result.confidence_reason)
                        /\ ctx' = [ctx EXCEPT
                                      ![s].final_result =
                                          IF caches THEN @ ELSE result,
                                      ![s].pc = IF caches THEN "store" ELSE "top",
                                      ![s].current_state =
                                          IF caches THEN "SYNTHESIZE" ELSE "DONE"]
                        /\ UNCHANGED task
        [] c.pc = "store" ->
              /\ UNCHANGED <<query_sessions, answer_snapshots, evidence, task>>
              /\ ctx' = [ctx EXCEPT ![s].pc = "merge", ![s].store_utcnow = now]
        [] c.pc = "merge" ->
              /\ UNCHANGED <<query_sessions, answer_snapshots, evidence>>
              /\ \E fault \in Faults(s, {"merge"}) :
                   IF fault = "merge"
                   THEN Raise(s, "OperationalError")
                   ELSE /\ ctx' = [ctx EXCEPT ![s].pc = "top",
                                              ![s].store_utcnow = 0,
                                              ![s].cache_merge = merged]
                        /\ UNCHANGED task
        [] OTHER -> FALSE

\* _handle_synthesize, end of QueryCacheRepository.store: db.commit flushes the
\* merged row, as an UPDATE when db.merge had found the row and as an INSERT
\* otherwise; the INSERT of a primary key another connection has inserted in
\* the meantime raises IntegrityError
StoreCommit(s) ==
    LET c == ctx[s]
        present == \E r \in query_cache : r.query_hash = c.last_query_hash
    IN
    /\ Running(s, "SYNTHESIZE")
    /\ c.cache_merge # Null
    /\ UNCHANGED envVars
    /\ UNCHANGED <<query_sessions, planner_traces, search_logs, answer_snapshots,
                   evidence, now, research_calls, cache_lookups>>
    /\ \E fault \in Faults(s, {"commit"}) :
         CASE fault = "commit" ->
                /\ Raise(s, "OperationalError")
                /\ UNCHANGED query_cache
           [] ~c.cache_merge.found /\ present ->
                /\ Raise(s, "IntegrityError")
                /\ UNCHANGED query_cache
           [] OTHER ->
                /\ query_cache' = StoreCache(query_cache, c.last_query_hash, s,
                                             CACHE_TTL_SECONDS, c.cache_merge.at)
                /\ ctx' = [ctx EXCEPT ![s].cache_merge = Null,
                                      ![s].final_result = c.research_result,
                                      ![s].current_state = "DONE"]
                /\ UNCHANGED task

\* PlannerAgent.run in state DONE: return final_result; the task closes its
\* database session and ends
ReturnDone(s) ==
    /\ Running(s, "DONE")
    /\ UNCHANGED envVars
    /\ task' = [task EXCEPT ![s].pos = "finished"]
    /\ UNCHANGED <<ctx, dbVars, now, research_calls, cache_lookups>>

\* a FAILED branch that stores the last research result as an answer
FailedAnswers_Partial(table, sid, c, t) ==
    IF c.research_result # Null THEN CreateAnswer(table, sid, c.research_result, t)
    ELSE table

\* PlannerAgent.run in state FAILED: no call of answer_repo
FailedAnswers(table, sid, c, t) == table

\* a FAILED branch that always stores the default reason
FailedReason_Default(c) == DEFAULT_FAILED_REASON

\* PlannerAgent.run in state FAILED:
\* `budget_exhausted_reason or "Planner terminated execution safely."`
FailedReason(c) ==
    IF c.budget_exhausted_reason # None
    THEN c.budget_exhausted_reason ELSE DEFAULT_FAILED_REASON

\* PlannerAgent.run in state FAILED, one step per commit: at pc "top" persist
\* the partial evidence when there is a research result, at pc "failed_status"
\* (at once without a result) mark the session FAILED and return the failure
\* record
HandleFailed(s) ==
    LET c == ctx[s]
        has_evidence == c.research_result # Null
    IN
    /\ Running(s, "FAILED")
    /\ UNCHANGED envVars
    /\ UNCHANGED <<planner_traces, search_logs, query_cache, now,
                   research_calls, cache_lookups>>
    /\ IF c.pc = "top" /\ has_evidence
       THEN /\ UNCHANGED <<query_sessions, answer_snapshots>>
            /\ \E fault \in Faults(s, {"bulk_create"}) :
                 IF fault = "bulk_create"
                 THEN /\ Raise(s, "OperationalError")
                      /\ UNCHANGED evidence
                 ELSE /\ evidence' =
                           BulkCreate(evidence, s, c.research_result.evidence)
                      /\ ctx' = [ctx EXCEPT ![s].pc = "failed_status"]
                      /\ UNCHANGED task
       ELSE /\ UNCHANGED evidence
            /\ \E fault \in Faults(s, {"update_final_status"}) :
                 IF fault = "update_final_status"
                 THEN /\ Raise(s, "OperationalError")
                      /\ UNCHANGED <<query_sessions, answer_snapshots>>
                 ELSE /\ task' = [task EXCEPT ![s].pos = "finished"]
                      /\ answer_snapshots' =
                           FailedAnswers(answer_snapshots, s, c, now)
                      /\ query_sessions' =
                           UpdateFinalStatus(query_sessions, s, "FAILED", "LOW",
                                             FailedReason(c))
                      /\ ctx' = [ctx EXCEPT ![s].pc = "top"]

\* routes._run_planner_background: a failure mark that sets the status only
FailureMark_StatusOnly(qs, sid, exc) == UpdateStatus(qs, sid, "FAILED")

\* routes._run_planner_background: the update_final_status call of the except
\* clause
FailureMark(qs, sid, exc) ==
    UpdateFinalStatus(qs, sid, "FAILED", "LOW", ExecutionFailedReason(exc))

\* an except clause whose Session can write the mark after any exception
FailureHandler_AfterRollback(s) ==
    /\ task[s].pos = "raised"
    /\ UNCHANGED envVars
    /\ task' = [task EXCEPT ![s].pos = "finished"]
    /\ query_sessions' = FailureMark(query_sessions, s, task[s].exc)
    /\ UNCHANGED <<ctx, planner_traces, search_logs, answer_snapshots, evidence,
                   query_cache, now, research_calls, cache_lookups>>

\* routes._run_planner_background, except clause: best-effort failure mark;
\* an exception of the mark itself is swallowed and the task returns. After
\* an IntegrityError, raised by the flush of a commit, the Session awaits a
\* rollback() the clause never calls, and the mark raises
\* PendingRollbackError.
FailureHandler(s) ==
    /\ task[s].pos = "raised"
    /\ UNCHANGED envVars
    /\ \E fault \in IF task[s].exc = "IntegrityError"
                    THEN {"update_final_status"}
                    ELSE Faults(s, {"update_final_status"}) :
         /\ task' = [task EXCEPT ![s].pos = "finished",
                                 ![s].failed_call =
                                     IF fault = "none" THEN None ELSE fault]
         /\ query_sessions' =
             IF fault = "none"
             THEN FailureMark(query_sessions, s, task[s].exc)
             ELSE query_sessions
    /\ UNCHANGED <<ctx, planner_traces, search_logs, answer_snapshots, evidence,
                   query_cache, now, research_calls, cache_lookups>>

\* routes._validate_uuid
ValidateUuid(session_id) == session_id # INVALID

\* fetch_result serving every session that has left INIT
ResultReady_NotInit(status) == status # "INIT"

\* fetch_result: "if session.status not in {"DONE", "FAILED"}: 409"
ResultReady(status) == status \in {"DONE", "FAILED"}

\* fetch_result, the QueryResultResponse built from the rows it read
ResultBody(session, snapshot, evidence_rows) ==
    [kind |-> "result",
     answer |-> IF snapshot # Null THEN snapshot.answer_text ELSE "",
     confidence_level |->
         IF snapshot # Null THEN snapshot.confidence_level
         ELSE IF session.final_confidence_level # None
              THEN session.final_confidence_level ELSE "LOW",
     confidence_reason |->
         IF snapshot # Null THEN snapshot.confidence_reason
         ELSE IF session.final_confidence_reason # None
              THEN session.final_confidence_reason ELSE "",
     evidence |-> [i \in DOMAIN evidence_rows |->
                     [claim |-> evidence_rows[i].claim_text,
                      status |-> evidence_rows[i].verification_status,
                      sources |-> evidence_rows[i].source_urls]],
     notes |-> IF session.status = "FAILED"
               THEN session.final_confidence_reason ELSE None]

\* routes.fetch_result, GET /query/{session_id}/result; fault is the query
\* of the request that fails, whatever the id: the reads after the status
\* check are outside the handler's try and fail with a 500
FetchResult(id) ==
    /\ api.calls < MaxApiCalls
    /\ UNCHANGED <<ctx, task, dbVars, now, research_calls, cache_lookups, wiring, call>>
    /\ \E fault \in {"none", "get", "read"} :
       \E snapshot \in GetLatestBySession(answer_snapshots, id) :
         api' = [calls |-> api.calls + 1,
                 request |-> [token |-> None, header |-> None],
                 reading |-> api.reading,
                 last |->
                   IF ~ValidateUuid(id)
                   THEN Response("result", id, 404, "Invalid session_id format",
                                 [kind |-> "none"])
                   ELSE IF fault = "get"
                   THEN Response("result", id, 503, UNAVAILABLE_DETAIL,
                                 [kind |-> "none"])
                   ELSE IF query_sessions[id] = Null
                   THEN Response("result", id, 404, "Unknown session_id",
                                 [kind |-> "none"])
                   ELSE IF ~ResultReady(query_sessions[id].status)
                   THEN Response("result", id, 409, "Result not ready",
                                 [kind |-> "none"])
                   ELSE IF fault = "read"
                   THEN Response("result", id, 500, "Internal Server Error",
                                 [kind |-> "none"])
                   ELSE Response("result", id, 200, None,
                                 ResultBody(query_sessions[id], snapshot,
                                            ListBySession(evidence, id)))]

\* routes.poll_status, GET /query/{session_id}/status
PollStatus(id) ==
    /\ api.calls < MaxApiCalls
    /\ UNCHANGED <<ctx, task, dbVars, now, research_calls, cache_lookups, wiring, call>>
    /\ \E fault \in {"none", "get"} :
         api' = [calls |-> api.calls + 1,
                 request |-> [token |-> None, header |-> None],
                 reading |-> api.reading,
                 last |->
                   IF ~ValidateUuid(id)
                   THEN Response("status", id, 404, "Invalid session_id format",
                                 [kind |-> "none"])
                   ELSE IF fault = "get"
                   THEN Response("status", id, 503, UNAVAILABLE_DETAIL,
                                 [kind |-> "none"])
                   ELSE IF query_sessions[id] = Null
                   THEN Response("status", id, 404, "Unknown session_id",
                                 [kind |-> "none"])
                   ELSE Response("status", id, 200, None,
                                 [kind |-> "status",
                                  status |-> query_sessions[id].status])]

\* a token check that rejects only a request without the header
TraceForbidden_MissingOnly(required, x_internal_token) ==
    required \notin {None, ""} /\ x_internal_token = None

\* fetch_trace: `if required and x_internal_token != required`; None and the
\* empty string are falsy
TraceForbidden(required, x_internal_token) ==
    required \notin {None, ""} /\ x_internal_token # required

\* routes.fetch_trace, GET /query/{session_id}/trace, one step per SELECT:
\* the token check and the read of the session row, then the read of the
\* planner traces, then the read of the search logs and the response; the
\* background tasks commit between them. required is what
\* os.getenv("INTERNAL_TRACE_TOKEN") gives the handler (None when unset),
\* x_internal_token the request's header (None when missing); the handler
\* has no try, so a failing read is a 500. The rows are listed in the order
\* of attempt_number and projected on the TEA-safe columns. api.reading is
\* the request being served: its token and header, its session id and the
\* planner traces it has read.
FetchTrace(id) ==
    LET Ordered(rows) ==
            [k \in DOMAIN rows |->
                CHOOSE r \in Range(rows) :
                    Cardinality({q \in Range(rows) :
                                    q.attempt_number < r.attempt_number}) = k - 1]
        traces == Ordered(SelectRows(planner_traces, id))
        logs == Ordered(SelectRows(search_logs, id))
        planner_traces_read ==
            [k \in DOMAIN traces |->
                [attempt_number |-> traces[k].attempt_number,
                 planner_state |-> traces[k].planner_state,
                 verification_decision |-> traces[k].verification_decision,
                 strategy_used |-> traces[k].strategy_used,
                 num_docs |-> traces[k].num_docs]]
        search_logs_read ==
            [k \in DOMAIN logs |->
                [attempt_number |-> logs[k].attempt_number,
                 query_used |-> logs[k].query_used,
                 num_docs |-> logs[k].num_docs,
                 success |-> logs[k].success]]
        Answer(request, code, detail, body) ==
            [calls |-> api.calls + 1, request |-> request, reading |-> Null,
             last |-> Response("trace", id, code, detail, body)]
    IN
    /\ UNCHANGED <<ctx, task, dbVars, now, research_calls, cache_lookups, wiring, call>>
    /\ CASE api.reading = Null ->
              /\ api.calls < MaxApiCalls
              /\ \E required \in {None, "", "t0k3n"} :
                 \E x_internal_token \in {None, "", "t0k3n", "T0K3N"} :
                 \E fault \in {"none", "get"} :
                   LET request == [token |-> required, header |-> x_internal_token]
                   IN  api' =
                         IF TraceForbidden(required, x_internal_token)
                         THEN Answer(request, 403, "Forbidden", [kind |-> "none"])
                         ELSE IF ~ValidateUuid(id)
                         THEN Answer(request, 404, "Invalid session_id format",
                                     [kind |-> "none"])
                         ELSE IF fault = "get"
                         THEN Answer(request, 500, "Internal Server Error",
                                     [kind |-> "none"])
                         ELSE IF query_sessions[id] = Null
                         THEN Answer(request, 404, "Unknown session_id",
                                     [kind |-> "none"])
                         ELSE [api EXCEPT !.reading =
                                  [request |-> request, session_id |-> id,
                                   stage |-> "traces", planner_traces |-> <<>>]]
        [] api.reading.session_id = id /\ api.reading.stage = "traces" ->
              \E fault \in {"none", "read"} :
                api' = IF fault = "read"
                       THEN Answer(api.reading.request, 500,
                                   "Internal Server Error", [kind |-> "none"])
                       ELSE [api EXCEPT !.reading.stage = "logs",
                                        !.reading.planner_traces =
                                            planner_traces_read]
        [] api.reading.session_id = id /\ api.reading.stage = "logs" ->
              \E fault \in {"none", "read"} :
                api' = IF fault = "read"
                       THEN Answer(api.reading.request, 500,
                                   "Internal Server Error", [kind |-> "none"])
                       ELSE Answer(api.reading.request, 200, None,
                                   [kind |-> "trace",
                                    planner_traces |-> api.reading.planner_traces,
                                    search_logs |-> search_logs_read])
        [] OTHER -> FALSE

\* time passes
Tick ==
    /\ now < MaxTicks * TickSeconds
    /\ UNCHANGED envVars
    /\ now' = now + TickSeconds
    /\ UNCHANGED <<ctx, task, dbVars, research_calls, cache_lookups>>

PlannerStep(s) ==
    \/ HandleInit(s)
    \/ HandleResearch(s)
    \/ HandleVerify(s)
    \/ HandleSynthesize(s)
    \/ StoreCommit(s)
    \/ ReturnDone(s)
    \/ HandleFailed(s)

TaskStep(s) == StartTask(s) \/ PlannerStep(s) \/ FailureHandler(s)

Next ==
    \/ \E s \in Sessions : SubmitQuery(s)
    \/ \E s \in Sessions : TaskStep(s)
    \/ Tick

Spec == Init /\ [][Next]_vars

\* one client request, served by a planner built with the ResearchAgent over
\* a search adapter that always throws and with the VerificationAgent, on a
\* database that does not fail
SearchThrows ==
    [s \in Sessions |->
        IF s = "s1"
        THEN [questions |-> Questions, max_attempts |-> MaxAttemptsChoices,
              results |-> {Research("raises", <<>>, <<n>>, <<>>, "raises").value :
                               n \in {INITIAL_NUM_DOCS, MAX_DOCS}},
              verifier |-> "agent",
              decisions |-> {}, faults |-> FALSE, raises |-> {}]
        ELSE NoWiring]

\* the planner is wired either with the stubs or as in SearchThrows
SearchThrowsSpec ==
    /\ InitSeeded(Seeds, OneSession) \/ InitSeeded(Seeds, SearchThrows)
    /\ [][Next]_vars

\* the planner as _build_planner wires it: the VerificationAgent behind the
\* ResearchAgent, whose search returns two pages; the claims extracted from
\* them agree across the two pages, come from one page only, oppose each
\* other, or are none, and llm_complete answers or raises
Production ==
    LET pages == <<[url |-> "u1", page |-> "doc"], [url |-> "u2", page |-> "doc"]>>
        falls == <<"tax", "reduces", "prices">>
        rises == <<"tax", "Increase">>
        Claim(text, url) == [claim |-> text, source_url |-> url, topic |-> "t1"]
        extractions == {<<Claim(falls, "u1"), Claim(falls, "u2")>>,
                        <<Claim(falls, "u1")>>,
                        <<Claim(falls, "u1"), Claim(rises, "u2")>>,
                        <<>>}
        outcomes == {Research("returns", pages, <<INITIAL_NUM_DOCS>>, e, llm) :
                        e \in extractions, llm \in {"llm answer", "raises"}}
    IN  [s \in Sessions |->
            IF s = "s1"
            THEN [questions |-> {Q1}, max_attempts |-> MaxAttemptsChoices,
                  results |-> {o.value : o \in {x \in outcomes : x.raised = None}},
                  verifier |-> "agent", decisions |-> {}, faults |-> FALSE,
                  raises |-> {o.raised : o \in {x \in outcomes : x.raised # None}}]
            ELSE NoWiring]

\* the planner is wired either with the stubs or as in production
AgentSpec ==
    /\ InitSeeded(Seeds, OneSession) \/ InitSeeded({"empty"}, Production)
    /\ [][Next]_vars

\* the planner started on a database whose cache holds a dangling reference
DanglingSpec == InitSeeded(DanglingSeeds, OneSession) /\ [][Next]_vars

\* two clients submit equivalent questions; each planner makes one attempt on
\* a database that does not fail, and the two background tasks interleave
TwoSessions ==
    [s \in Sessions |->
        [questions |-> Questions, max_attempts |-> {1},
         results |-> {Result("HIGH", REASON_OTHER, <<EV1>>)},
         verifier |-> "stub", decisions |-> Decisions, faults |-> FALSE, raises |-> {}]]

ConcSpec == InitSeeded({"empty", "base"}, TwoSessions) /\ [][Next]_vars

\* two clients submit the same question on an empty cache; each planner has
\* a research agent of its own, the first answering with LOW and the second
\* with HIGH confidence, and may retry once, so that the lookup of one
\* session's retry and the cache write of the other interleave
RetryConcSpec ==
    /\ InitSeeded({"empty"},
                  [s \in Sessions |->
                      [TwoSessions[s] EXCEPT
                          !.questions = {Q1},
                          !.max_attempts = {2},
                          !.results = IF s = "s1"
                                      THEN {Result("LOW", REASON_OTHER, <<EV1>>)}
                                      ELSE {Result("HIGH", REASON_OTHER, <<EV1>>)},
                          !.decisions = {d \in Decisions : d.recommendation = None}]])
    /\ [][Next]_vars

\* one client submits a question and polls; the planner is wired with two of
\* the research results and makes up to three attempts
Polled ==
    [s \in Sessions |->
        IF s = "s1"
        THEN [questions |-> {Q1}, max_attempts |-> {1, 3},
              results |-> {Result("LOW", REASON_SINGLE, <<>>),
                           Result("HIGH", REASON_OTHER, <<EV1>>)},
              verifier |-> "stub", decisions |-> Decisions, faults |-> TRUE, raises |-> {"ResearchError"}]
        ELSE NoWiring]

ApiNext ==
    \/ Next
    \/ \E id \in RequestIds : FetchResult(id)
    \/ \E id \in RequestIds : PollStatus(id)

ApiSpec == InitSeeded({"empty", "base"}, Polled) /\ [][ApiNext]_vars

\* one client submits a question, the planner makes up to two attempts on a
\* database that does not fail for it, and internal clients read traces
TraceSpec ==
    /\ InitSeeded({"empty"},
                  [s \in Sessions |->
                      IF s = "s1"
                      THEN [questions |-> {Q1}, max_attempts |-> {2},
                            results |-> {Result("LOW", REASON_SINGLE, <<>>)},
                            verifier |-> "stub",
                            decisions |-> {d \in Decisions : d.recommendation = None},
                            faults |-> FALSE, raises |-> {"ResearchError"}]
                      ELSE NoWiring])
    /\ [][Next \/ \E id \in RequestIds : FetchTrace(id)]_vars

\* two clients submit the same question on a database that is empty or
\* caches its fingerprint and that does not fail; the verifier accepts or asks for a
\* retry, the second client's planner may retry once, and a background
\* worker keeps running each scheduled task
FairConcSpec ==
    /\ InitSeeded({"empty", "base"},
                  [s \in Sessions |->
                      [TwoSessions[s] EXCEPT
                          !.questions = {Q1},
                          !.max_attempts = IF s = "s1" THEN {1} ELSE {1, 2},
                          !.decisions = {d \in Decisions :
                                            /\ d.decision \in {ACCEPT, RETRY}
                                            /\ d.recommendation = None}]])
    /\ [][Next]_vars
    /\ \A s \in Sessions : WF_vars(TaskStep(s))

\* one client request; the research stub answers with a LOW or a HIGH result
OneFairSession ==
    [s \in Sessions |->
        IF s = "s1"
        THEN [FullWiring EXCEPT
                 !.questions = {Q1},
                 !.results = {Result("LOW", REASON_SINGLE, <<>>),
                              Result("HIGH", REASON_OTHER, <<EV1>>)}]
        ELSE NoWiring]

\* the background worker keeps running a scheduled task until it ends
FairSpec ==
    /\ InitSeeded({"broaden"}, OneFairSession)
    /\ [][Next]_vars
    /\ \A s \in Sessions : WF_vars(TaskStep(s))

\* ------------------------------------------------- components on their own
\* a component function called directly, as the unit tests do
Apply(fn, ret) ==
    /\ call.fn = fn
    /\ call.ret = Pending
    /\ call' = [call EXCEPT !.ret = ret]
    /\ UNCHANGED <<ctx, task, dbVars, now, research_calls, cache_lookups,
                   wiring, api>>

\* sequences over a set, up to a length
SeqUpTo(S, n) == UNION {[1..k -> S] : k \in 0..n}

\* calls of decide: the items of verified_claims are VerifiedClaim objects
\* and evidence dicts; confidence_level is confidence.get("confidence_level"),
\* None when the key is absent
DecideCalls ==
    [fn : {"decide"},
     args : [verified_claims : SeqUpTo([kind : {"VerifiedClaim", "dict"},
             status : VerificationStatus], MaxClaims),
             confidence_level : {"HIGH", "MEDIUM", "LOW", "UNKNOWN", None},
             attempt : 1..MaxMaxAttempts,
             max_attempts : MaxAttemptsChoices],
     ret : {Pending}]

\* a caller runs VerificationAgent.decide
ApplyDecide ==
    /\ call.fn = "decide"
    /\ Apply("decide", Decide(call.args.verified_claims, call.args.confidence_level,
                              call.args.attempt, call.args.max_attempts))

\* calls of score: VerifiedClaim objects as the scorer reads them, a status
\* and the source URLs
ScoreCalls ==
    [fn : {"score"},
     args : [verified_claims : SeqUpTo([status : VerificationStatus, sources : SUBSET {"u1",
             "u2", "u3"}], MaxClaims)],
     ret : {Pending}]

\* a caller runs ConfidenceScorer.score
ApplyScore ==
    /\ call.fn = "score"
    /\ Apply("score", Returned(Score(call.args.verified_claims)))

\* calls of verify: ExtractedClaim objects with the topic the matcher's
\* embedding finds, the same for equal texts; the claim texts assert a fall,
\* a rise, neither (no keyword) and both (a keyword of each kind)
VerifyCalls ==
    LET lists == SeqUpTo([claim : {<<"tax", "reduces", "prices">>,
                                   <<"tax", "Increase">>, <<"tax">>,
                                   <<"slower", "Increase">>},
                          source_url : {"u1", "u2"}, topic : {"t1", "t2"}],
                         MaxClaims)
    IN  [fn : {"verify"},
         args : [extracted_claims :
                    {l \in lists : \A i \in DOMAIN l : \A j \in DOMAIN l :
                        l[i].claim = l[j].claim => l[i].topic = l[j].topic}],
         ret : {Pending}]

\* a caller runs VerificationEngine.verify
ApplyVerify ==
    /\ call.fn = "verify"
    /\ Apply("verify", Returned(Verify(call.args.extracted_claims)))

\* calls of run: a search result is two ordinary pages, a page on a blocked
\* domain, a URL urlparse rejects or a result dict without the key "url";
\* page says what fetching and extracting it gives
RunCalls ==
    [fn : {"run"},
     args : [search : {"returns", "raises"},
             results : SeqUpTo([url : {"u1", "u2", "http://x.blocked.example/", "http://[bad",
                     "no url key"}, page : {"doc", "short", "fetch_raises", "extract_raises"}],
                     MaxResults),
             num_docs : {<<>>, <<0>>, <<3>>, <<10>>}],
     ret : {Pending}]

\* a caller runs WebEnvironment.run
ApplyRun ==
    /\ call.fn = "run"
    /\ Apply("run", Run(call.args.search, call.args.results, call.args.num_docs))

\* calls of set: no code of the repository calls it, a caller of the
\* repository class does; the key is new or the key of a stored row
SetCalls ==
    [fn : {"set"},
     args : [query_hash : {ComputeQueryHash(Q1, BASE, INITIAL_NUM_DOCS),
                           ComputeQueryHash(Q2, BASE, INITIAL_NUM_DOCS)},
             session_id : {"s1", PREV},
             expires_at : {0, CACHE_TTL_SECONDS}],
     ret : {Pending}]

\* a caller runs QueryCacheRepository.set: db.merge and db.commit, which
\* stores the row or raises and stores nothing
ApplySet ==
    /\ call.fn = "set"
    /\ call.ret = Pending
    /\ UNCHANGED <<ctx, task, query_sessions, planner_traces, search_logs,
                   answer_snapshots, evidence, now, research_calls,
                   cache_lookups, wiring, api>>
    /\ \E fault \in {"none", "commit"} :
         IF fault = "commit"
         THEN /\ call' = [call EXCEPT !.ret = Raised("OperationalError")]
              /\ query_cache' = query_cache
         ELSE /\ call' = [call EXCEPT !.ret = Returned(None)]
              /\ query_cache' = SetCache(query_cache, call.args.query_hash,
                                         call.args.session_id,
                                         call.args.expires_at)

Calls == DecideCalls \cup ScoreCalls \cup VerifyCalls \cup RunCalls

CallNext == ApplyDecide \/ ApplyScore \/ ApplyVerify \/ ApplyRun \/ ApplySet

\* one call of one component with any arguments; set is called on an empty
\* cache and on a cache that holds a row
CallSpec ==
    /\ \/ InitState({"empty"}, [s \in Sessions |-> NoWiring], Calls)
       \/ InitState({"empty", "base"}, [s \in Sessions |-> NoWiring], SetCalls)
    /\ [][CallNext]_vars

\* ------------------------------------------------------ claim vocabulary
Terminal == {"DONE", "FAILED"}

Exists(id) == query_sessions[id] # Null

\* verification decision of the newest PlannerTrace row of a session
LastTraceDecision(sid) ==
    LET rows == SelectRows(planner_traces, sid)
    IN  IF rows = <<>> THEN None ELSE rows[Len(rows)].verification_decision

\* this step is a _handle_verify of session s that returned normally after
\* the verification agent answered with decision dec
VerifyStep(s, dec) ==
    /\ Running(s, "VERIFY")
    /\ task'[s].pos = "running"
    /\ Len(planner_traces') = Len(planner_traces) + 1
    /\ planner_traces'[Len(planner_traces')].session_id = s
    /\ planner_traces'[Len(planner_traces')].verification_decision = dec

\* this step is the cache lookup of a _handle_research of session s that
\* goes on: the attempt is served from the cache or researched and logged
LookupStep(s) ==
    /\ Running(s, "RESEARCH")
    /\ ctx[s].pc = "lookup"
    /\ ctx'[s] # ctx[s]
    /\ task'[s].pos = "running"

\* this step is the last database call of a _handle_verify of session s
\* that returns normally: the update_status of the branch it took
VerifyStatusStep(s) ==
    /\ task[s].pos = "running"
    /\ ctx[s].pc = "verify_status"
    /\ ctx'[s] # ctx[s]
    /\ task'[s].pos = "running"

\* no_progress_count as the stop-check of this _handle_verify sees it
ProgressAtCheck(s) ==
    RecordProgress(ctx[s], ctx[s].research_result.confidence_level, RETRY).no_progress_count

\* -------------------------------------------------------------------- C1
\* C1: once a session's stored status is DONE or FAILED, no later write
\* changes its status or its final confidence fields.
C1_TerminalNeverMutated ==
    [][\A id \in AllIds :
          (Exists(id) /\ query_sessions[id].status \in Terminal)
              => query_sessions'[id] = query_sessions[id]]_vars

\* -------------------------------------------------------------------- C2
\* C2: for every sequence of research results and verification decisions,
\* a running PlannerAgent.run reaches DONE or FAILED (or leaves by an
\* exception of a collaborator); it never loops forever.
C2_RunTerminates ==
    \A s \in Sessions :
        (task[s].pos = "running")
            ~> (ctx[s].current_state \in Terminal \/ task[s].pos = "raised")

\* an always-RETRY run that used every attempt and ended FAILED
C2_Witness ==
    \E s \in Sessions :
        /\ ctx[s].current_state = "FAILED"
        /\ ctx[s].attempt_count = MaxMaxAttempts
        /\ \A i \in DOMAIN planner_traces :
               planner_traces[i].session_id = s
                   => planner_traces[i].verification_decision = RETRY

\* -------------------------------------------------------------------- C3
\* C3: a QueryCache row belongs to a session only if that session's last
\* verification decision was ACCEPT; a session that ended through STOP or
\* ended FAILED has no cache row.
C3_CacheOnlyOnAccept ==
    \A r \in query_cache :
        /\ LastTraceDecision(r.session_id) = ACCEPT
        /\ Exists(r.session_id)
        /\ query_sessions[r.session_id].status # "FAILED"

\* a session that finished DONE through STOP and has no cache row
C3_Witness ==
    \E s \in Sessions :
        /\ task[s].pos = "finished"
        /\ query_sessions[s].status = "DONE"
        /\ LastTraceDecision(s) = STOP
        /\ ctx[s].last_query_hash # Null
        /\ \A r \in query_cache : r.session_id # s

\* -------------------------------------------------------------------- C4
\* C4: RETRY with attempt >= max_attempts moves the planner to FAILED with
\* the maximum-attempts reason, without incrementing attempt and without
\* invoking research.
C4_MaxAttemptsStops ==
    [][\A s \in Sessions :
          (VerifyStep(s, RETRY) /\ ctx[s].attempt_count >= ctx[s].max_attempts)
              => /\ ctx'[s].current_state = "FAILED"
                 /\ ctx'[s].budget_exhausted_reason = MAX_ATTEMPTS_REASON
                 /\ ctx'[s].attempt_count = ctx[s].attempt_count
                 /\ research_calls' = research_calls
                 /\ query_sessions'[s].status = "VERIFY"]_vars

\* the session ended FAILED by the maximum-attempts check after three attempts
C4_Witness ==
    \E s \in Sessions :
        /\ task[s].pos = "finished"
        /\ ctx[s].current_state = "FAILED"
        /\ ctx[s].attempt_count = 3
        /\ ctx[s].max_attempts = 3
        /\ ctx[s].last_decision = RETRY
        /\ query_sessions[s].final_confidence_reason = MAX_ATTEMPTS_REASON
        /\ Len(SelectRows(research_calls, s)) + Len(SelectRows(cache_lookups, s)) >= 3

\* -------------------------------------------------------------------- C5
\* C5 as stated: RETRY with no_progress_count >= 3 at the stop-check moves
\* the planner to FAILED with the no-progress reason.
C5_NoProgressReason ==
    [][\A s \in Sessions :
          (VerifyStep(s, RETRY) /\ ProgressAtCheck(s) >= NO_PROGRESS_LIMIT)
              => /\ ctx'[s].current_state = "FAILED"
                 /\ ctx'[s].budget_exhausted_reason = NO_PROGRESS_REASON]_vars

\* C5 amended: RETRY with no_progress_count >= 3 at the stop-check moves the
\* planner to FAILED without starting another attempt; the reason is the
\* no-progress reason when attempt < max_attempts and the maximum-attempts
\* reason when attempt >= max_attempts (that check is made first).
C5_NoProgressStops ==
    [][\A s \in Sessions :
          (VerifyStep(s, RETRY) /\ ProgressAtCheck(s) >= NO_PROGRESS_LIMIT)
              => /\ ctx'[s].current_state = "FAILED"
                 /\ ctx'[s].attempt_count = ctx[s].attempt_count
                 /\ research_calls' = research_calls
                 /\ ctx'[s].budget_exhausted_reason =
                        IF ctx[s].attempt_count < ctx[s].max_attempts
                        THEN NO_PROGRESS_REASON ELSE MAX_ATTEMPTS_REASON]_vars

\* the session ended FAILED by the no-progress check before max_attempts
C5_Witness ==
    \E s \in Sessions :
        /\ ctx[s].current_state = "FAILED"
        /\ ctx[s].no_progress_count >= NO_PROGRESS_LIMIT
        /\ ctx[s].attempt_count < ctx[s].max_attempts
        /\ ctx[s].budget_exhausted_reason = NO_PROGRESS_REASON

\* -------------------------------------------------------------------- C6
\* C6: a RETRY for which all four strategies have already been used moves
\* the planner directly to FAILED; no further research attempt is started.
C6_ExhaustedFails ==
    [][\A s \in Sessions :
          (VerifyStep(s, RETRY) /\ Range(ctx[s].strategy_history) = SearchStrategy)
              => /\ ctx'[s].current_state = "FAILED"
                 /\ ctx'[s].attempt_count = ctx[s].attempt_count]_vars

\* -------------------------------------------------------------------- C7
\* the strategy the rotation rule adopts for a preferred strategy
Adopted(used, preferred) ==
    IF preferred \notin used THEN preferred ELSE FirstUnused(used)

\* C7: every RETRY that proceeds adopts the preferred strategy if it is
\* unused, otherwise the first unused strategy of the canonical order, and
\* strategy_history never holds a strategy twice.
C7_RotationRule ==
    [][\A s \in Sessions :
          (VerifyStep(s, RETRY) /\ ctx'[s].attempt_count = ctx[s].attempt_count + 1)
              => LET used == Range(ctx[s].strategy_history)
                     reason == ctx[s].research_result.confidence_reason
                     history == ctx'[s].strategy_history
                 IN  /\ \E d \in Decisions :
                           /\ d.decision = RETRY
                           /\ ctx'[s].current_strategy =
                                  Adopted(used, PreferredStrategy(reason, d.recommendation))
                     /\ history = Append(ctx[s].strategy_history,
                                         ctx'[s].current_strategy)
                     /\ \A i, j \in DOMAIN history :
                            history[i] = history[j] => i = j]_vars

\* -------------------------------------------------------------------- C8
RECURSIVE Pow2(_)
Pow2(n) == IF n = 0 THEN 1 ELSE 2 * Pow2(n - 1)

\* C8: num_docs is 5 on the first attempt and doubles on each RETRY that
\* proceeds, capped at 20: attempt k researches, traces and fingerprints
\* with min(5 * 2^(k-1), 20).
C8_NumDocsSchedule ==
    /\ \A i \in DOMAIN planner_traces :
          planner_traces[i].session_id \in Sessions
              => planner_traces[i].num_docs =
                     Min(5 * Pow2(planner_traces[i].attempt_number - 1), 20)
    /\ \A i \in DOMAIN research_calls :
          research_calls[i].num_docs =
              Min(5 * Pow2(research_calls[i].attempt - 1), 20)
    /\ \A s \in Sessions :
          (ctx[s].current_state \in PlannerState /\ ctx[s].last_query_hash # Null)
              => ctx[s].last_query_hash.num_docs \in
                     {Min(5 * Pow2(k - 1), 20) : k \in 1..ctx[s].attempt_count}

\* -------------------------------------------------------------------- C9
\* C9: the first attempt never consults the cache: no lookup is made on
\* attempt 1, and research is invoked on attempt 1 whatever the cache holds.
C9_FirstAttemptBypassesCache ==
    /\ \A i \in DOMAIN cache_lookups : cache_lookups[i].attempt > 1
    /\ \A s \in Sessions :
          ( /\ ctx[s].current_state \in PlannerState
            /\ ctx[s].attempt_count >= 1
            /\ (ctx[s].current_state # "RESEARCH" \/ ctx[s].attempt_count > 1) )
              => \E i \in DOMAIN research_calls :
                     /\ research_calls[i].session_id = s
                     /\ research_calls[i].attempt = 1

\* a valid cache entry exists for the fingerprint of a first attempt whose
\* research has just been done
C9_Witness ==
    \E s \in Sessions :
        /\ ctx[s].current_state = "VERIFY"
        /\ ctx[s].attempt_count = 1
        /\ \E r \in query_cache :
              /\ r.query_hash = ctx[s].last_query_hash
              /\ r.expires_at > now
              /\ Null \notin GetLatestBySession(answer_snapshots, r.session_id)
        /\ \E i \in DOMAIN research_calls : research_calls[i].session_id = s

\* ------------------------------------------------------------------- C10
\* the valid cache rows for the fingerprint of the attempt session s is
\* about to research, whose session has an answer snapshot
ValidCachedRows(s) ==
    {r \in query_cache :
        /\ r.query_hash.question = NormalizeQuestion(ctx[s].question)
        /\ r.query_hash.strategy = ctx[s].current_strategy
        /\ r.query_hash.num_docs = ctx[s].num_docs
        /\ r.expires_at > now
        /\ \E i \in DOMAIN answer_snapshots :
               answer_snapshots[i].session_id = r.session_id}

\* C10: on an attempt > 1 whose fingerprint has a valid cache entry that
\* references a session with an answer snapshot, research is not invoked
\* and VERIFY receives the cached session's latest answer and evidence.
C10_RetryServedFromCache ==
    [][\A s \in Sessions :
          ( /\ LookupStep(s)
            /\ ctx[s].attempt_count > 1
            /\ ValidCachedRows(s) # {} )
              => \E r \in ValidCachedRows(s) :
                 \E latest \in GetLatestBySession(answer_snapshots, r.session_id) :
                    LET rows == SelectRows(evidence, r.session_id)
                        result == ctx'[s].research_result
                    IN  /\ research_calls' = research_calls
                        /\ search_logs' = search_logs
                        /\ ctx'[s].current_state = "VERIFY"
                        /\ latest # Null
                        /\ result.answer = latest.answer_text
                        /\ result.confidence_level = latest.confidence_level
                        /\ Len(result.evidence) = Len(rows)
                        /\ \A i \in DOMAIN rows :
                               /\ result.evidence[i].claim = rows[i].claim_text
                               /\ result.evidence[i].status =
                                      rows[i].verification_status
                               /\ result.evidence[i].sources = rows[i].source_urls]_vars

\* the second attempt was served from the cache: one research call, and
\* the prior session's answer and evidence are the result under VERIFY
C10_Witness ==
    \E s \in Sessions :
        /\ ctx[s].current_state = "VERIFY"
        /\ ctx[s].attempt_count = 2
        /\ ctx[s].research_result.answer = PrevResult.answer
        /\ ctx[s].research_result.evidence = PrevResult.evidence
        /\ Len(SelectRows(research_calls, s)) = 1
        /\ Len(SelectRows(cache_lookups, s)) = 1

\* ------------------------------------------------------------------- C11
\* unexpired cache rows for the fingerprint of session s's current attempt
\* whose session is missing or has no answer snapshot
DanglingRows(s) ==
    {r \in query_cache :
        /\ r.query_hash = ComputeQueryHash(ctx[s].question, ctx[s].current_strategy,
                                           ctx[s].num_docs)
        /\ r.expires_at > now
        /\ \/ ~Exists(r.session_id)
           \/ \A i \in DOMAIN answer_snapshots :
                  answer_snapshots[i].session_id # r.session_id}

\* the call of research_agent.research in _handle_research of session s
\* returns
ResearchCallStep(s) ==
    /\ Running(s, "RESEARCH")
    /\ ctx[s].pc = "research"
    /\ ctx'[s] # ctx[s]
    /\ task'[s].pos = "running"

\* search_repo.log of _handle_research of session s commits
SearchLogStep(s) ==
    /\ Running(s, "RESEARCH")
    /\ ctx[s].pc = "search_log"
    /\ ctx'[s] # ctx[s]
    /\ task'[s].pos = "running"

\* the retry of session s has looked up a row that is dangling
LookedUpDangling(s) ==
    /\ ctx[s].attempt_count > 1
    /\ DanglingRows(s) # {}
    /\ \E i \in DOMAIN cache_lookups :
          /\ cache_lookups[i].session_id = s
          /\ cache_lookups[i].attempt = ctx[s].attempt_count
          /\ cache_lookups[i].found

\* C11: when the cache row found on a retry references a session that does
\* not exist or has no answer snapshot, the lookup serves nothing from the
\* cache and goes on to the research call; the call that returns is recorded
\* for that attempt with a fresh result, its SearchLog row is written next,
\* and only then is the planner in VERIFY: a retry under VERIFY that looked
\* up a dangling row has its invocation, its SearchLog row and a fresh result.
C11_DanglingFallsThrough ==
    /\ [][\A s \in Sessions :
            /\ ( LookupStep(s) /\ ctx[s].attempt_count > 1 /\ DanglingRows(s) # {} )
                  => /\ ctx'[s].current_state = "RESEARCH"
                     /\ ctx'[s].pc = "research"
                     /\ ctx'[s].research_result = ctx[s].research_result
                     /\ ctx'[s].search_count = ctx[s].search_count
            /\ ( ResearchCallStep(s) /\ LookedUpDangling(s) )
                  => /\ ctx'[s].pc = "search_log"
                     /\ ctx'[s].search_count = ctx[s].search_count + 1
                     /\ Len(research_calls') = Len(research_calls) + 1
                     /\ research_calls'[Len(research_calls')].session_id = s
                     /\ research_calls'[Len(research_calls')].attempt = ctx[s].attempt_count
                     /\ ctx'[s].research_result \in wiring[s].results
            /\ ( SearchLogStep(s) /\ LookedUpDangling(s) )
                  => /\ ctx'[s].current_state = "VERIFY"
                     /\ ctx'[s].research_result = ctx[s].research_result
                     /\ Len(search_logs') = Len(search_logs) + 1
                     /\ search_logs'[Len(search_logs')].session_id = s
                     /\ search_logs'[Len(search_logs')].attempt_number
                            = ctx[s].attempt_count]_vars
    /\ [](\A s \in Sessions :
            ( /\ task[s].pos = "running"
              /\ ctx[s].current_state = "VERIFY"
              /\ LookedUpDangling(s) )
                => /\ ctx[s].research_result \in wiring[s].results
                   /\ \E j \in DOMAIN research_calls :
                         /\ research_calls[j].session_id = s
                         /\ research_calls[j].attempt = ctx[s].attempt_count
                   /\ \E k \in DOMAIN search_logs :
                         /\ search_logs[k].session_id = s
                         /\ search_logs[k].attempt_number = ctx[s].attempt_count)

\* a session whose retry found a dangling cache row, researched afresh on
\* that attempt and ended DONE
C11_Witness ==
    \E s \in Sessions :
        /\ task[s].pos = "finished"
        /\ query_sessions[s].status = "DONE"
        /\ \E i \in DOMAIN cache_lookups :
             /\ cache_lookups[i].session_id = s
             /\ cache_lookups[i].found
             /\ \E j \in DOMAIN research_calls :
                  /\ research_calls[j].session_id = s
                  /\ research_calls[j].attempt = cache_lookups[i].attempt
             /\ \E k \in DOMAIN search_logs :
                  /\ search_logs[k].session_id = s
                  /\ search_logs[k].attempt_number = cache_lookups[i].attempt
\* ------------------------------------------------------------------- C12
\* C12: a cache lookup made at time now returns a row if and only if the
\* table holds a row for the fingerprint whose expires_at is strictly greater
\* than now; a row whose expires_at equals now is a miss.
C12_StrictExpiry ==
    [][Len(cache_lookups') = Len(cache_lookups) + 1
          => LET looked == cache_lookups'[Len(cache_lookups')]
                 rows == {r \in query_cache : r.query_hash = looked.query_hash}
             IN  /\ looked.found <=> \E r \in rows : r.expires_at > now
                 /\ (\A r \in rows : r.expires_at = now) => ~looked.found]_vars

\* the newest lookup missed although the table holds the row of its
\* fingerprint, which expires at this very instant
C12_Witness ==
    /\ cache_lookups # <<>>
    /\ LET looked == cache_lookups[Len(cache_lookups)]
       IN  /\ ~looked.found
           /\ \E r \in query_cache :
                 r.query_hash = looked.query_hash /\ r.expires_at = now
\* ------------------------------------------------------------------- C13
\* C13: for any interleaving of sessions that ACCEPT on the same fingerprint,
\* no cache write fails its session, the cache holds at most one row per
\* fingerprint, and a cache write leaves the row referencing its writer.
C13_CacheWritesNeverFail ==
    /\ [](\A s \in Sessions : task[s].exc # "IntegrityError")
    /\ [](\A r1, r2 \in query_cache : r1.query_hash = r2.query_hash => r1 = r2)
    /\ [][\A s \in Sessions :
            (Running(s, "SYNTHESIZE") /\ ctx[s].cache_merge # Null)
                => \/ ctx'[s] = ctx[s]
                   \/ \E r \in query_cache' :
                         /\ r.query_hash = ctx[s].last_query_hash
                         /\ r.session_id = s]_vars
\* ------------------------------------------------------------------- C14
\* C14: a _handle_verify whose decision is STOP moves the planner to
\* SYNTHESIZE with the STOP reason attached as notes to the otherwise
\* unchanged research result, and a run that returns after a STOP has ended
\* DONE, never FAILED, with the research result's own confidence.
C14_StopSynthesizes ==
    /\ [][\A s \in Sessions :
            /\ VerifyStep(s, STOP)
                => /\ ctx'[s].current_state = "SYNTHESIZE"
                   /\ ctx'[s].pc = "verify_status"
                   /\ ctx'[s].research_result =
                        [ctx[s].research_result EXCEPT
                            !.notes = planner_traces'[Len(planner_traces')].stop_reason]
                   /\ ctx'[s].research_result.notes # None
            /\ (VerifyStatusStep(s) /\ ctx[s].last_decision = STOP)
                => /\ ctx'[s].current_state = "SYNTHESIZE"
                   /\ ctx'[s].pc = "top"
                   /\ query_sessions'[s].status = "SYNTHESIZE"
                   /\ ctx'[s].research_result = ctx[s].research_result]_vars
    /\ [](\A s \in Sessions :
            ( /\ task[s].pos = "finished"
              /\ ctx[s].current_state \in PlannerState
              /\ LastTraceDecision(s) = STOP )
                => /\ ctx[s].current_state = "DONE"
                   /\ query_sessions[s].status = "DONE"
                   /\ ctx[s].final_result = ctx[s].research_result
                   /\ query_sessions[s].final_confidence_level =
                        ctx[s].research_result.confidence_level
                   /\ query_sessions[s].final_confidence_reason =
                        ctx[s].research_result.confidence_reason)

\* a run that was stopped on its third attempt with a LOW result ended DONE
\* with that confidence, the STOP reason as notes, and no cache row
C14_Witness ==
    \E s \in Sessions :
        /\ task[s].pos = "finished"
        /\ ctx[s].current_state = "DONE"
        /\ LastTraceDecision(s) = STOP
        /\ ctx[s].attempt_count = 3
        /\ query_sessions[s].status = "DONE"
        /\ query_sessions[s].final_confidence_level = "LOW"
        /\ ctx[s].final_result.notes = "stopped"
        /\ \A r \in query_cache : r.session_id # s
\* ------------------------------------------------------------------- C15
\* position of a stored status in the order INIT, RESEARCH, VERIFY,
\* SYNTHESIZE, terminal
Rank(status) ==
    CASE status = "INIT" -> 0
      [] status = "RESEARCH" -> 1
      [] status = "VERIFY" -> 2
      [] status = "SYNTHESIZE" -> 3
      [] OTHER -> 4

\* C15 as stated: over the whole life of a session the stored status never
\* moves backwards in the order INIT, RESEARCH, VERIFY, SYNTHESIZE, terminal.
C15_StatusMonotone ==
    [][\A id \in AllIds :
          (Exists(id) /\ query_sessions'[id] # Null)
              => Rank(query_sessions'[id].status) >= Rank(query_sessions[id].status)]_vars

\* C15 amended: the stored status never moves backwards in that order except
\* from VERIFY to RESEARCH, written by the _handle_verify whose decision is
\* RETRY and that starts the next attempt.
C15_MonotoneButRetry ==
    [][\A id \in AllIds :
          (Exists(id) /\ query_sessions'[id] # Null)
              => \/ Rank(query_sessions'[id].status) >= Rank(query_sessions[id].status)
                 \/ /\ id \in Sessions
                    /\ VerifyStatusStep(id)
                    /\ LastTraceDecision(id) = RETRY
                    /\ query_sessions[id].status = "VERIFY"
                    /\ query_sessions'[id].status = "RESEARCH"
                    /\ ctx'[id].current_state = "RESEARCH"
                    /\ ctx'[id].attempt_count =
                           Len(SelectRows(planner_traces, id)) + 1]_vars

\* a session whose status is back at RESEARCH for its second attempt, after
\* the VERIFY of the first attempt logged RETRY
C15_Witness ==
    \E s \in Sessions :
        /\ task[s].pos = "running"
        /\ ctx[s].current_state = "RESEARCH"
        /\ ctx[s].attempt_count = 2
        /\ query_sessions[s].status = "RESEARCH"
        /\ LastTraceDecision(s) = RETRY
\* ------------------------------------------------------------------- C16
\* C16: the PlannerTrace rows of a session carry the attempt numbers
\* 1, 2, ..., n in this order, without gap or duplicate, and a run that has
\* returned has one row for each of its attempts.
C16_TraceAttemptsDense ==
    \A s \in Sessions :
        LET rows == SelectRows(planner_traces, s)
        IN  /\ \A i \in DOMAIN rows : rows[i].attempt_number = i
            /\ (task[s].pos = "finished" /\ ctx[s].current_state \in {"DONE", "FAILED"})
                   => Len(rows) = ctx[s].attempt_count

\* a session completed after three attempts, with three trace rows
C16_Witness ==
    \E s \in Sessions :
        /\ task[s].pos = "finished"
        /\ query_sessions[s].status \in Terminal
        /\ Len(SelectRows(planner_traces, s)) = 3
\* ------------------------------------------------------------------- C17
\* this step is a GET /query/{id}/result that the API has answered
ResultCall(id) ==
    /\ api'.calls = api.calls + 1
    /\ api'.last.endpoint = "result"
    /\ api'.last.session_id = id

\* C17: GET /result of an existing session answers 200 only when the stored
\* status is DONE or FAILED, and while it is not, a request whose session
\* lookup succeeded is answered 409 "Result not ready".
C17_ResultGatedByStatus ==
    [][\A id \in AllIds :
          (ResultCall(id) /\ Exists(id))
              => /\ api'.last.code = 200
                      => query_sessions[id].status \in Terminal
                 /\ (query_sessions[id].status \notin Terminal /\ api'.last.code # 503)
                      => /\ api'.last.code = 409
                         /\ api'.last.detail = "Result not ready"
                         /\ api'.last.body.kind = "none"]_vars

\* the result of a session still in SYNTHESIZE was asked for and refused
C17_Witness ==
    \E s \in Sessions :
        /\ Exists(s)
        /\ query_sessions[s].status = "SYNTHESIZE"
        /\ api.last = Response("result", s, 409, "Result not ready", [kind |-> "none"])

\* ------------------------------------------------------------------- C18
\* C18: two successive GET /result calls that are both served for a session
\* in a terminal status return identical responses, and the second one
\* writes nothing to the database and invokes no research.
C18_RepeatedResultIdentical ==
    [][\A id \in AllIds :
          ( /\ ResultCall(id)
            /\ api.last.endpoint = "result"
            /\ api.last.session_id = id
            /\ api.last.code = 200
            /\ api'.last.code \notin {500, 503} )
              => /\ api'.last = api.last
                 /\ UNCHANGED dbVars
                 /\ research_calls' = research_calls]_vars
\* ------------------------------------------------------------------- C19
\* C19: a submit that is answered 200 has created a row with a fresh id and
\* status INIT and scheduled a planner run for it, also when the question's
\* fingerprint is cached; it reads and writes no cache row and touches no
\* other session; on a database that does not fail (a failing one is C35's
\* case) every scheduled session, a second one of the same question included
\* and also one that retries, reaches a terminal status after researching
\* itself.
C19_SubmitAlwaysCreates ==
    /\ [][\A s \in Sessions :
            (task[s].pos = "unsubmitted" /\ task'[s].pos # "unsubmitted" /\ api'.last.code = 200)
                => /\ task'[s].pos = "scheduled"
                   /\ query_sessions[s] = Null
                   /\ query_sessions'[s] # Null
                   /\ query_sessions'[s].status = "INIT"
                   /\ query_sessions'[s].question = task'[s].question
                   /\ \A id \in AllIds \ {s} : query_sessions'[id] = query_sessions[id]
                   /\ api'.last.body.session_id = s
                   /\ cache_lookups' = cache_lookups
                   /\ query_cache' = query_cache]_vars
    /\ \A s \in Sessions :
          (task[s].pos = "scheduled")
              ~> ( /\ task[s].pos = "finished"
                   /\ query_sessions[s].status \in Terminal
                   /\ \E i \in DOMAIN research_calls :
                         /\ research_calls[i].session_id = s
                         /\ research_calls[i].attempt = 1 )

\* two sessions of the same question, submitted while its fingerprint was
\* cached by an earlier session, have both reached a terminal status, one of
\* them after a retry that looked the cache up
C19_Witness ==
    /\ Exists(PREV)
    /\ \E i \in DOMAIN cache_lookups : cache_lookups[i].attempt = 2
    /\ \A s \in Sessions :
          /\ task[s].pos = "finished"
          /\ query_sessions[s].status \in Terminal
          /\ NormalizeQuestion(query_sessions[s].question)
                = NormalizeQuestion(query_sessions[PREV].question)
\* ------------------------------------------------------------------- C20
\* rows of any table that belong to session id
RowsOf(id) ==
    Len(SelectRows(planner_traces, id)) + Len(SelectRows(search_logs, id))
        + Len(SelectRows(answer_snapshots, id)) + Len(SelectRows(evidence, id))
        + Cardinality({r \in query_cache : r.session_id = id})

\* C20: a submit whose database commit fails is answered 503, writes no row
\* to any table and schedules no background task; no row and no planner
\* ever appear for that request afterwards.
C20_SubmitCommitFailure ==
    /\ [][\A s \in Sessions :
            (task[s].pos = "unsubmitted" /\ task'[s].failed_call = "commit")
                => /\ api'.last = Response("submit", None, 503, UNAVAILABLE_DETAIL,
                                           [kind |-> "none"])
                   /\ task'[s].pos = "rejected"
                   /\ UNCHANGED dbVars
                   /\ ctx' = ctx]_vars
    /\ [](\A s \in Sessions :
            task[s].failed_call = "commit"
                => /\ task[s].pos = "rejected"
                   /\ query_sessions[s] = Null
                   /\ RowsOf(s) = 0
                   /\ ctx[s] = NoPlanner)

\* a submit was refused with 503 after its commit failed and left nothing
C20_Witness ==
    \E s \in Sessions :
        /\ task[s].failed_call = "commit"
        /\ api.last.endpoint = "submit"
        /\ api.last.code = 503
        /\ query_sessions[s] = Null
        /\ RowsOf(s) = 0

\* ------------------------------------------------------------------- C21
\* C21: when the planner run raises inside the background task (research,
\* verification or database failure), the except clause ends the task
\* without raising further: its one write marks the session FAILED with LOW
\* confidence and the reason naming the exception class, and when that write
\* itself fails it is swallowed and the row is left as it was.
C21_FailureMarked ==
    [][\A s \in Sessions :
         task[s].pos = "raised" /\ task'[s].pos # "raised" =>
             /\ task'[s].pos = "finished"
             /\ Exists(s)
             /\ \A id \in AllIds \ {s} : query_sessions'[id] = query_sessions[id]
             /\ IF task'[s].failed_call = None
                THEN /\ query_sessions'[s].status = "FAILED"
                     /\ query_sessions'[s].final_confidence_level = "LOW"
                     /\ query_sessions'[s].final_confidence_reason =
                            ExecutionFailedReason(task[s].exc)
                     /\ query_sessions'[s].question = query_sessions[s].question
                ELSE query_sessions'[s] = query_sessions[s]]_vars

\* a verification failure was caught and the session was marked FAILED / LOW
C21_Witness ==
    \E s \in Sessions :
        /\ task[s].pos = "finished"
        /\ task[s].exc = "VerificationError"
        /\ task[s].failed_call = None
        /\ query_sessions[s].status = "FAILED"
        /\ query_sessions[s].final_confidence_level = "LOW"

\* ------------------------------------------------------------------- C25
\* decide was called with VerifiedClaim objects only
WellTyped(claims) == \A i \in DOMAIN claims : claims[i].kind = "VerifiedClaim"

HasConflict(claims) == \E i \in DOMAIN claims : claims[i].status = CONFLICT

DecideReturned ==
    call.fn = "decide" /\ call.ret # Pending /\ WellTyped(call.args.verified_claims)

\* C25: VerificationAgent.decide follows the policy table: with no claims,
\* with a CONFLICT claim or with LOW confidence it returns RETRY while
\* attempt < max_attempts and STOP from attempt >= max_attempts on; with HIGH
\* or MEDIUM confidence, claims present and none of them CONFLICT it returns
\* ACCEPT at every attempt.
C25_PolicyTable ==
    DecideReturned =>
        LET a == call.args
            weak == \/ a.verified_claims = <<>>
                    \/ HasConflict(a.verified_claims)
                    \/ a.confidence_level = "LOW"
        IN  /\ call.ret.raised = None
            /\ weak /\ a.attempt < a.max_attempts =>
                   call.ret.value.decision = RETRY
            /\ weak /\ a.attempt >= a.max_attempts =>
                   call.ret.value.decision = STOP
            /\ ~weak /\ a.confidence_level \in {"HIGH", "MEDIUM"} =>
                   call.ret.value.decision = ACCEPT

\* decide stopped at the last attempt on a CONFLICT claim although the
\* confidence was HIGH
C25_Witness ==
    /\ DecideReturned
    /\ HasConflict(call.args.verified_claims)
    /\ call.args.confidence_level = "HIGH"
    /\ call.args.attempt = call.args.max_attempts
    /\ call.args.attempt > 1
    /\ call.ret.value.decision = STOP

\* ------------------------------------------------------------------- C26
\* C26: for a confidence value outside HIGH, MEDIUM and LOW the call of
\* VerificationAgent.decide made by the verification step never raises and
\* returns STOP with the reason "Unable to determine verification status
\* reliably.".
C26_UnknownStops ==
    ( /\ call.fn = "decide"
      /\ call.ret # Pending
      /\ call.args.confidence_level \notin {"HIGH", "MEDIUM", "LOW"} )
        => /\ call.ret.raised = None
           /\ call.ret.value.decision = STOP
           /\ call.ret.value.reason = "Unable to determine verification status reliably."

\* ------------------------------------------------------------------- C27
ScoreReturned == call.fn = "score" /\ call.ret # Pending

\* the seven rules of the scorer in their order: whether rule k applies to a
\* list of claims, and the level it gives
RuleApplies(k, claims) ==
    LET n == Len(claims)
        agree == Cardinality({i \in 1..n : claims[i].status = AGREEMENT})
        conflict == Cardinality({i \in 1..n : claims[i].status = CONFLICT})
        single == Cardinality({i \in 1..n : claims[i].status = SINGLE_SOURCE})
        cited == UNION {claims[i].sources : i \in 1..n}
    IN  CASE k = 1 -> n = 0
          [] k = 2 -> conflict > 0
          [] k = 3 -> single = n
          [] k = 4 -> agree = 0
          [] k = 5 -> 2 * agree >= n /\ Cardinality(cited) >= 2
          [] k = 6 -> agree > 0
          [] OTHER -> TRUE

RuleLevel(k) == IF k = 5 THEN "HIGH" ELSE IF k = 6 THEN "MEDIUM" ELSE "LOW"

FirstRule(claims) == CHOOSE k \in 1..7 :
    RuleApplies(k, claims) /\ \A j \in 1..(k - 1) : ~RuleApplies(j, claims)

\* C27: ConfidenceScorer.score returns the level of the first of its seven
\* ordered rules that applies; a CONFLICT claim gives LOW whatever agrees, and
\* HIGH is returned only when no claim is CONFLICT, the AGREEMENT claims are
\* at least half of all claims and at least 2 distinct sources are cited.
C27_FirstRuleWins ==
    ScoreReturned =>
        LET claims == call.args.verified_claims
            level == call.ret.value.confidence_level
            n == Len(claims)
            agree == Cardinality({i \in 1..n : claims[i].status = AGREEMENT})
        IN  /\ level = RuleLevel(FirstRule(claims))
            /\ (\E i \in 1..n : claims[i].status = CONFLICT) => level = "LOW"
            /\ level = "HIGH" =>
                   /\ \A i \in 1..n : claims[i].status # CONFLICT
                   /\ 2 * agree >= n
                   /\ Cardinality(UNION {claims[i].sources : i \in 1..n}) >= 2

\* HIGH was returned when exactly half of the claims agree
C27_Witness ==
    /\ ScoreReturned
    /\ Len(call.args.verified_claims) = 2
    /\ CountStatus(call.args.verified_claims, AGREEMENT) = 1
    /\ call.ret.value.confidence_level = "HIGH"

\* ------------------------------------------------------------------- C28
VerifyReturned == call.fn = "verify" /\ call.ret # Pending

\* C28: for each group of similar claims the verifier outputs SINGLE_SOURCE
\* exactly when the group has one distinct source URL; otherwise it outputs
\* CONFLICT when some pair of the group's claims has a polarity product below
\* zero and AGREEMENT when no pair has.
C28_GroupStatus ==
    VerifyReturned =>
        LET groups == GroupSimilarClaims(call.args.extracted_claims)
            out == call.ret.value
        IN  /\ Len(out) = Len(groups)
            /\ \A k \in DOMAIN groups :
                 LET g == groups[k]
                     urls == {g[i].source_url : i \in DOMAIN g}
                     opposed == \E i \in DOMAIN g : \E j \in DOMAIN g :
                         PolarityScore(g[i].claim) * PolarityScore(g[j].claim) < 0
                 IN  /\ out[k].status = SINGLE_SOURCE <=> Cardinality(urls) = 1
                     /\ Cardinality(urls) # 1 =>
                            out[k].status = IF opposed THEN CONFLICT ELSE AGREEMENT

\* a group was reported CONFLICT for a pair of opposed claims neither of
\* which is the group's first claim
C28_Witness ==
    /\ VerifyReturned
    /\ Len(call.ret.value) = 1
    /\ Len(call.args.extracted_claims) = 3
    /\ PolarityScore(call.args.extracted_claims[1].claim) = 0
    /\ call.ret.value[1].status = CONFLICT

\* ------------------------------------------------------------------- C23
RunReturned == call.fn = "run" /\ call.ret # Pending

\* C23: WebEnvironment.run never raises to its caller: whatever the search
\* call or the processing of a search result (reading its URL, domain
\* filtering, fetch, extract) raises, run returns a list of documents.
C23_RunNeverRaises == RunReturned => call.ret.raised = None

\* ------------------------------------------------------------------- C22
\* a session whose planner is wired as in SearchThrows
OnThrowingSearch(s) == wiring[s].verifier = "agent"

\* each environment run over a throwing search adapter returns no documents
\* and records one error string
RunOnThrowingSearch ==
    \A n \in {INITIAL_NUM_DOCS, MAX_DOCS} :
        LET ran == Run("raises", <<>>, <<n>>)
        IN  /\ ran.raised = None
            /\ ran.value.documents = <<>>
            /\ Len(ran.value.errors) = 1

\* C22: when the search adapter throws on every attempt, each environment
\* run returns no documents and records one error string, and the planner
\* run ends on the FAILED path with LOW confidence without any exception
\* escaping.
C22_SearchThrowsFails ==
    /\ RunOnThrowingSearch
    /\ \A s \in Sessions :
         OnThrowingSearch(s) /\ task[s].pos = "finished" =>
             /\ task[s].exc = None
             /\ query_sessions[s].status = "FAILED"
             /\ query_sessions[s].final_confidence_level = "LOW"

\* C22 as the code has it: over a search adapter that always throws the run
\* ends without an exception in a terminal status with LOW confidence; it is
\* DONE, through the verification agent's STOP, when the attempts reach
\* max_attempts, and FAILED with the planner's no-progress reason when the
\* planner's own check stops the retries before that.
C22_SearchThrowsEndsLow ==
    /\ RunOnThrowingSearch
    /\ \A s \in Sessions :
         OnThrowingSearch(s) /\ task[s].pos = "finished" =>
             /\ task[s].exc = None
             /\ query_sessions[s].status \in Terminal
             /\ query_sessions[s].final_confidence_level = "LOW"
             /\ query_sessions[s].status = "DONE" <=>
                    ctx[s].attempt_count = ctx[s].max_attempts
             /\ query_sessions[s].status = "DONE" =>
                    /\ ctx[s].last_decision = STOP
                    /\ query_sessions[s].final_confidence_reason = "No relevant claims could be extracted from available sources."
             /\ query_sessions[s].status = "FAILED" =>
                    /\ ctx[s].last_decision = RETRY
                    /\ query_sessions[s].final_confidence_reason =
                           ctx[s].budget_exhausted_reason

\* three attempts over the throwing adapter ended DONE with LOW confidence
C22_Witness ==
    \E s \in Sessions :
        /\ OnThrowingSearch(s)
        /\ task[s].pos = "finished"
        /\ ctx[s].max_attempts = 3
        /\ Len(SelectRows(research_calls, s)) = 3
        /\ query_sessions[s].status = "DONE"
        /\ query_sessions[s].final_confidence_level = "LOW"

\* ------------------------------------------------------------------- C24
\* the sessions whose task or request takes the step
Acting == {s \in Sessions : task'[s] # task[s] \/ ctx'[s] # ctx[s]}

\* the rows a step appends to a table
Appended(table) == SubSeq(table', Len(table) + 1, Len(table'))

\* every row a step writes carries the id of the session whose task wrote it
RowsCarryOwnId ==
    \A rows \in {Appended(planner_traces), Appended(search_logs),
                 Appended(evidence), Appended(answer_snapshots)} :
        \A i \in DOMAIN rows : rows[i].session_id \in Acting

\* a step changes the session row of the acting session only
StatusOfOthersKept ==
    \A id \in AllIds : query_sessions'[id] # query_sessions[id] => id \in Acting

\* PlannerAgent.run of a planner wired as w, built with max_attempts and
\* running alone on an empty cache, from its attempt on: the outcomes it can
\* store. The research agent returns one of w.results, the verifier one of
\* w.decisions; ACCEPT and STOP synthesize and store DONE with the confidence
\* of that result, RETRY stops at max_attempts with FAILED / LOW and the
\* maximum-attempts reason, and otherwise the next attempt misses the cache
\* and researches again. (For max_attempts <= 4 the no-progress check of
\* _should_stop never comes before the maximum.)
RECURSIVE SoloRun(_, _, _)
SoloRun(w, max_attempts, attempt) ==
    UNION { UNION {
        IF d.decision # RETRY
        THEN {[status |-> "DONE", level |-> r.confidence_level,
               reason |-> r.confidence_reason]}
        ELSE IF attempt >= max_attempts
        THEN {[status |-> "FAILED", level |-> "LOW", reason |-> MAX_ATTEMPTS_REASON]}
        ELSE SoloRun(w, max_attempts, attempt + 1)
      : d \in w.decisions } : r \in w.results }

\* the terminal outcomes session s can reach running alone with its inputs
SoloOutcomes(s) ==
    UNION {SoloRun(wiring[s], m, 1) : m \in wiring[s].max_attempts}

\* the terminal outcome stored for session id
StoredOutcome(id) ==
    [status |-> query_sessions[id].status,
     level |-> query_sessions[id].final_confidence_level,
     reason |-> query_sessions[id].final_confidence_reason]

\* a retry of session s was served what another session had cached
ServedFromCache(s) ==
    \E i \in DOMAIN cache_lookups :
        /\ cache_lookups[i].session_id = s
        /\ cache_lookups[i].found
        /\ Len(SelectRows(research_calls, s)) < cache_lookups[i].attempt

SameOutcomeAsAlone ==
    \A s \in Sessions :
        task[s].pos = "finished" => StoredOutcome(s) \in SoloOutcomes(s)

\* a finished session has an outcome of its run alone, or it was served from
\* the cache and has the outcome of the other session, which ended DONE
AloneOrAsCached ==
    \A s \in Sessions :
        task[s].pos = "finished" =>
            \/ StoredOutcome(s) \in SoloOutcomes(s)
            \/ /\ ServedFromCache(s)
               /\ \E o \in Sessions \ {s} :
                     /\ StoredOutcome(o).status = "DONE"
                     /\ StoredOutcome(s) = StoredOutcome(o)

\* C24 as stated: in any interleaving of concurrently running sessions every
\* trace, search-log, evidence and answer row a task writes carries that
\* session's own id, no task changes the status of another session, and every
\* session ends with a terminal outcome (stored status, final confidence and
\* reason) that it can reach running alone with its inputs on the same
\* initial cache.
C24_SessionsIsolated ==
    /\ [][RowsCarryOwnId /\ StatusOfOthersKept]_vars
    /\ []SameOutcomeAsAlone

\* C24, amended: the rows a task writes carry its session's own id, no task
\* changes the status of another session, and every session ends with an
\* outcome of its run alone unless one of its retries was served the answer
\* another session cached meanwhile: then it may end DONE with the confidence
\* of that session's answer.
C24_IsolatedButForCache ==
    /\ [][RowsCarryOwnId /\ StatusOfOthersKept]_vars
    /\ []AloneOrAsCached

\* the session whose research agent only ever answers with LOW confidence
\* researched once, was served on its retry what the other session had cached
\* while both were running, and ended DONE with HIGH confidence
C24_Witness ==
    \E s, o \in Sessions :
        /\ s # o
        /\ task[s].pos = "finished" /\ task[o].pos = "finished"
        /\ ServedFromCache(s)
        /\ Len(SelectRows(research_calls, s)) = 1
        /\ StoredOutcome(s) \notin SoloOutcomes(s)
        /\ StoredOutcome(s) = StoredOutcome(o)
        /\ StoredOutcome(s) = [status |-> "DONE", level |-> "HIGH", reason |-> REASON_OTHER]
        /\ \E i \in DOMAIN answer_snapshots : answer_snapshots[i].session_id = s

\* ------------------------------------------------------------------- C29
\* the planner of session s ends in FAILED: run returns the failure record
EndsFailed(s) ==
    /\ task[s].pos = "running"
    /\ ctx[s].current_state = "FAILED"
    /\ task'[s].pos = "finished"

\* C29: whenever the planner ends in FAILED the session row is updated to
\* status FAILED with final confidence LOW and the exhausted-reason of the
\* condition that caused the failure: the maximum-attempts reason when the
\* attempts had reached max_attempts, the no-progress reason otherwise.
C29_FailedRowWritten ==
    [][\A s \in Sessions :
         EndsFailed(s) =>
             /\ query_sessions'[s].status = "FAILED"
             /\ query_sessions'[s].final_confidence_level = "LOW"
             /\ query_sessions'[s].final_confidence_reason =
                    IF ctx[s].attempt_count >= ctx[s].max_attempts
                    THEN MAX_ATTEMPTS_REASON
                    ELSE NO_PROGRESS_REASON
             /\ ctx[s].attempt_count < ctx[s].max_attempts =>
                    ctx[s].no_progress_count >= NO_PROGRESS_LIMIT]_vars

\* a planner that ran out of progress before max_attempts ended FAILED
C29_Witness ==
    \E s \in Sessions :
        /\ task[s].pos = "finished"
        /\ ctx[s].current_state = "FAILED"
        /\ ctx[s].attempt_count < ctx[s].max_attempts
        /\ query_sessions[s].status = "FAILED"
        /\ query_sessions[s].final_confidence_reason = NO_PROGRESS_REASON

\* ------------------------------------------------------------------- C30
\* the step is a SYNTHESIZE step of session s that has a research result
SynthesizeStep(s) ==
    /\ task[s].pos = "running"
    /\ ctx[s].current_state = "SYNTHESIZE"
    /\ ctx[s].research_result # Null

\* a step that changes answer_snapshots is a SYNTHESIZE step with a research
\* result and appends one row for its own session and result
OnlySynthesizeWrites ==
    answer_snapshots' # answer_snapshots =>
        \E s \in Sessions :
            /\ SynthesizeStep(s)
            /\ answer_snapshots' =
                   Append(answer_snapshots,
                          [session_id |-> s,
                           answer_text |-> ctx[s].research_result.answer,
                           confidence_level |->
                               ctx[s].research_result.confidence_level,
                           confidence_reason |->
                               ctx[s].research_result.confidence_reason,
                           created_at |-> now])

\* no session has more than one AnswerSnapshot, and a session whose planner
\* reached FAILED, which it does without synthesizing, has none
AtMostOneAnswer ==
    \A id \in AllIds :
        /\ Len(SelectRows(answer_snapshots, id)) <= 1
        /\ (id \in Sessions /\ ctx[id].current_state = "FAILED") =>
               SelectRows(answer_snapshots, id) = <<>>

\* C30: an AnswerSnapshot row is written only by a SYNTHESIZE step that has
\* a research result; a session that reaches FAILED without synthesizing has
\* no AnswerSnapshot, and no session ever has more than one.
C30_AnswerOnlyBySynthesize ==
    /\ [][OnlySynthesizeWrites]_vars
    /\ []AtMostOneAnswer

\* a session ended FAILED after three attempts with research results and has
\* no AnswerSnapshot, next to a session that has one
C30_Witness ==
    \E s \in Sessions :
        /\ task[s].pos = "finished"
        /\ ctx[s].current_state = "FAILED"
        /\ ctx[s].research_result # Null
        /\ query_sessions[s].status = "FAILED"
        /\ SelectRows(answer_snapshots, s) = <<>>
        /\ Len(SelectRows(answer_snapshots, PREV)) = 1

\* ------------------------------------------------------------------- C31
\* PlannerAgent.run of session s has returned, from DONE or from FAILED
PlannerReturned(s) ==
    /\ task[s].pos = "finished"
    /\ ctx[s].current_state \in Terminal

\* the evidence items of the last research result of session s
FinalEvidence(s) ==
    IF ctx[s].research_result = Null THEN <<>>
    ELSE ctx[s].research_result.evidence

\* C31: when the planner's run has ended in DONE or FAILED, the Evidence
\* rows of the session are the evidence items of its last research result,
\* in order, one row per item with the item's claim text, status and source
\* list, and nothing else (no duplicate, no row of an earlier attempt).
C31_EvidenceIsFinalResult ==
    \A s \in Sessions :
        PlannerReturned(s) =>
            LET rows == ListBySession(evidence, s)
                items == FinalEvidence(s)
            IN  /\ Len(rows) = Len(items)
                /\ \A i \in DOMAIN items :
                       /\ rows[i].claim_text = items[i].claim
                       /\ rows[i].verification_status = items[i].status
                       /\ rows[i].source_urls = items[i].sources

\* a run ended after a second attempt whose result carries evidence, and
\* the one row stored is that item; another run ended after a second
\* attempt without evidence although research had been called twice
C31_Witness ==
    \E s \in Sessions :
        /\ PlannerReturned(s)
        /\ ctx[s].attempt_count >= 2
        /\ FinalEvidence(s) = <<EV1>>
        /\ Len(ListBySession(evidence, s)) = 1
        /\ ListBySession(evidence, s)[1].claim_text = EV1.claim

\* ------------------------------------------------------------------- C32
\* this step is a _handle_verify of session s with decision RETRY, and every
\* attempt of s so far, this one included, gave the same confidence level
\* and RETRY: no_progress_count has grown with attempt_count
StalledRetry(s) ==
    /\ VerifyStep(s, RETRY)
    /\ ProgressAtCheck(s) >= ctx[s].attempt_count - 1

\* C32 as stated: a planner whose attempts all give the same confidence level
\* and RETRY ends in FAILED when that output has been seen four times, with
\* the no-progress reason, no_progress_count >= 3 and attempt < max_attempts,
\* for the default max_attempts (3) and for larger values.
C32_NoProgressBeforeMax ==
    [][\A s \in Sessions :
         StalledRetry(s) =>
             /\ ctx'[s].current_state = "FAILED" <=> ctx[s].attempt_count = 4
             /\ ctx'[s].current_state = "FAILED" =>
                    /\ ctx'[s].budget_exhausted_reason = NO_PROGRESS_REASON
                    /\ ctx'[s].no_progress_count >= NO_PROGRESS_LIMIT
                    /\ ctx[s].attempt_count < ctx[s].max_attempts]_vars

\* C32, amended: such a planner ends in FAILED at attempt min(4,
\* max_attempts). With max_attempts >= 5 that is the fourth output, with the
\* no-progress reason, no_progress_count >= 3 and attempt < max_attempts;
\* with max_attempts <= 4 (the default 3 included) it is attempt
\* max_attempts, with the maximum-attempts reason and no_progress_count =
\* max_attempts - 1, which is below 3 for max_attempts <= 3 and is 3 for
\* max_attempts = 4, where the maximum-attempts check still comes first.
C32_NoProgressOrMax ==
    [][\A s \in Sessions :
         StalledRetry(s) =>
             /\ ctx'[s].current_state = "FAILED" <=>
                    ctx[s].attempt_count = Min(4, ctx[s].max_attempts)
             /\ ctx'[s].current_state = "FAILED" =>
                    IF ctx[s].max_attempts >= 5
                    THEN /\ ctx'[s].budget_exhausted_reason = NO_PROGRESS_REASON
                         /\ ctx'[s].no_progress_count >= NO_PROGRESS_LIMIT
                         /\ ctx[s].attempt_count < ctx[s].max_attempts
                    ELSE /\ ctx'[s].budget_exhausted_reason = MAX_ATTEMPTS_REASON
                         /\ ctx[s].attempt_count = ctx[s].max_attempts
                         /\ ctx'[s].no_progress_count = ctx[s].max_attempts - 1
                         /\ ctx'[s].no_progress_count >= NO_PROGRESS_LIMIT
                                <=> ctx[s].max_attempts = 4]_vars

\* a planner built with max_attempts 5 stopped at its fourth attempt, all
\* four with the same confidence level and RETRY, for lack of progress
C32_Witness ==
    \E s \in Sessions :
        /\ task[s].pos = "running"
        /\ ctx[s].current_state = "FAILED"
        /\ ctx[s].max_attempts = 5
        /\ ctx[s].attempt_count = 4
        /\ ctx[s].no_progress_count = 3
        /\ ctx[s].last_decision = RETRY
        /\ ctx[s].budget_exhausted_reason = NO_PROGRESS_REASON
        /\ Len(SelectRows(planner_traces, s)) = 4

\* ------------------------------------------------------------------- C33
\* calls research_agent.research has received from the planner of session s
InvocationsOf(s) == SelectRows(research_calls, s)

\* the planner of session s is between the return of research() and the
\* commit of the SearchLog row of that call
LogPending(s) ==
    /\ task[s].pos = "running"
    /\ ctx[s].current_state = "RESEARCH"
    /\ ctx[s].pc = "search_log"

\* C33: the number of SearchLog rows of a session equals the number of
\* research-agent invocations made for it (an attempt served from the cache
\* makes no invocation and writes no row), in every state but the instant
\* in which the row of the call that has just returned is being written.
C33_SearchLogPerInvocation ==
    \A s \in Sessions :
        \/ LogPending(s)
        \/ Len(SelectRows(search_logs, s)) = Len(InvocationsOf(s))

\* ------------------------------------------------------------------- C34
\* the last request served was a GET /trace
TraceCall == api.last.endpoint = "trace"

\* INTERNAL_TRACE_TOKEN is configured: set to a non-empty string
TokenConfigured == api.request.token \notin {None, ""}

\* C34: with a trace token configured, a GET /trace whose X-Internal-Token
\* header is not the configured token (missing, empty, or differing in any
\* character) is answered 403 without trace data, whatever the session id;
\* trace data is returned only to a request that carries the token.
C34_TraceNeedsToken ==
    (TraceCall /\ TokenConfigured) =>
        /\ api.request.header # api.request.token =>
               /\ api.last.code = 403
               /\ api.last.body.kind = "none"
        /\ api.last.body.kind = "trace" =>
               /\ api.request.header = api.request.token
               /\ api.last.code = 200

\* with a token configured, a request carrying it was served the trace of a
\* session that has rows
C34_Witness ==
    /\ TraceCall
    /\ TokenConfigured
    /\ api.request.header = api.request.token
    /\ api.last.code = 200
    /\ api.last.session_id \in Sessions
    /\ api.last.body.kind = "trace"
    /\ Len(api.last.body.planner_traces) >= 2
    /\ Len(api.last.body.search_logs) >= 1

\* ------------------------------------------------------------------- C35
\* C35: every session created by a submit that was answered 200, and whose
\* background task is therefore scheduled, eventually has the stored status
\* DONE or FAILED, also when the planner raises or a database write fails
\* inside the task.
C35_SubmittedReachesTerminal ==
    \A s \in Sessions :
        (task[s].pos = "scheduled")
            ~> (Exists(s) /\ query_sessions[s].status \in Terminal)

\* ------------------------------------------------------------------- C36
StoredDone(s) == Exists(s) /\ query_sessions[s].status = "DONE"

\* a session stored as DONE has its AnswerSnapshot and, while its planner
\* still holds the result, one Evidence row for every item of it
DoneHasItsRows ==
    \A s \in Sessions :
        StoredDone(s) =>
            /\ Len(SelectRows(answer_snapshots, s)) = 1
            /\ ctx[s].current_state \in PlannerState =>
                   /\ ctx[s].research_result # Null
                   /\ SelectRows(answer_snapshots, s)[1].answer_text =
                          ctx[s].research_result.answer
                   /\ Len(ListBySession(evidence, s)) =
                          Len(ctx[s].research_result.evidence)

\* no row of a session stored as DONE is written after the status
DoneRowsFrozen ==
    \A s \in Sessions :
        StoredDone(s) =>
            /\ SelectRows(answer_snapshots', s) = SelectRows(answer_snapshots, s)
            /\ ListBySession(evidence', s) = ListBySession(evidence, s)

\* a /result read that observed DONE returned the session's answer and all
\* of its evidence
DoneReadComplete ==
    \A id \in Sessions :
        (ResultCall(id) /\ api'.last.code = 200 /\ StoredDone(id)) =>
            /\ api'.last.body.answer = SelectRows(answer_snapshots, id)[1].answer_text
            /\ Len(api'.last.body.evidence) = Len(ListBySession(evidence, id))
            /\ \A i \in DOMAIN api'.last.body.evidence :
                   api'.last.body.evidence[i].claim =
                       ListBySession(evidence, id)[i].claim_text

\* C36: whenever the stored status of a session is DONE its AnswerSnapshot
\* row and all of its Evidence rows are committed already and none is written
\* later, so a /result read that observes DONE, at any point of the planner's
\* run, returns the stored answer and the complete evidence.
C36_DoneAfterRows ==
    /\ []DoneHasItsRows
    /\ [][DoneRowsFrozen /\ DoneReadComplete]_vars

\* /result was read while the planner was still inside _handle_synthesize,
\* between the DONE status and the cache write, and returned the answer and
\* the evidence item
C36_Witness ==
    \E s \in Sessions :
        /\ Running(s, "SYNTHESIZE")
        /\ ctx[s].cache_merge # Null
        /\ StoredDone(s)
        /\ api.last.endpoint = "result"
        /\ api.last.session_id = s
        /\ api.last.code = 200
        /\ api.last.body.answer = ctx[s].research_result.answer
        /\ Len(api.last.body.evidence) = 1

\* ------------------------------------------------------------------- C37
\* this step is the call of decide in a _handle_verify of session s, whose
\* planner is wired with the VerificationAgent and whose research result
\* carries evidence
VerifyOfEvidence(s) ==
    /\ wiring[s].verifier = "agent"
    /\ Running(s, "VERIFY")
    /\ ctx[s].pc = "decide"
    /\ ctx[s].research_result.evidence # <<>>
    /\ task'[s] # task[s] \/ ctx'[s] # ctx[s]

\* C37: with the VerificationAgent wired in, _handle_verify of a research
\* result with a non-empty evidence list obtains a decision and does not
\* raise: the step writes its PlannerTrace row and the planner goes on to
\* RESEARCH, SYNTHESIZE or FAILED by its own logic.
C37_EvidenceIsDecided ==
    [][\A s \in Sessions :
         VerifyOfEvidence(s) =>
             /\ task'[s].pos = "running"
             /\ ctx'[s].current_state \in {"RESEARCH", "SYNTHESIZE", "FAILED"}
             /\ Len(SelectRows(planner_traces', s)) =
                    Len(SelectRows(planner_traces, s)) + 1]_vars

\* ------------------------------------------------------------------- C38
\* C38: once the planner of a session has left INIT, attempt_count is within
\* 1..max_attempts, and the session has at most attempt_count, hence at most
\* max_attempts, research invocations and PlannerTrace rows.
C38_AttemptsBounded ==
    \A s \in Sessions :
        ctx[s].current_state \in PlannerState \ {"INIT"} =>
            /\ ctx[s].attempt_count \in 1..ctx[s].max_attempts
            /\ Len(InvocationsOf(s)) <= ctx[s].attempt_count
            /\ Len(SelectRows(planner_traces, s)) <= ctx[s].attempt_count
            /\ Len(InvocationsOf(s)) <= ctx[s].max_attempts
            /\ Len(SelectRows(planner_traces, s)) <= ctx[s].max_attempts

\* a planner built with max_attempts 3 used all three attempts: three
\* research invocations, three PlannerTrace rows, then FAILED
C38_Witness ==
    \E s \in Sessions :
        /\ ctx[s].current_state = "FAILED"
        /\ ctx[s].max_attempts = 3
        /\ ctx[s].attempt_count = 3
        /\ Len(InvocationsOf(s)) = 3
        /\ Len(SelectRows(planner_traces, s)) = 3

\* ------------------------------------------------------------------- C39
\* C39: the attempts of one session, as its PlannerTrace rows record them,
\* run under pairwise distinct strategies; in particular no attempt after
\* the first runs under BASE again.
C39_StrategiesDistinct ==
    \A s \in Sessions :
        LET rows == SelectRows(planner_traces, s)
        IN  \A i, j \in DOMAIN rows :
                i < j => rows[i].strategy_used # rows[j].strategy_used

\* ------------------------------------------------------------------- C40
\* the cache entries written by a planner of this system: QueryCache rows
\* that reference one of its sessions
PlannerEntries == {r \in query_cache : r.session_id \in Sessions}

\* C40: a cache entry written by the planner references, when it is written
\* and in every later state, a session whose stored status is DONE and that
\* has an AnswerSnapshot, so a hit on it neither dangles nor yields the
\* result of a FAILED session.
C40_CacheEntriesStayValid ==
    \A r \in PlannerEntries :
        /\ Exists(r.session_id)
        /\ query_sessions[r.session_id].status = "DONE"
        /\ \A snapshot \in GetLatestBySession(answer_snapshots, r.session_id) :
               /\ snapshot # Null
               /\ snapshot.confidence_level =
                      query_sessions[r.session_id].final_confidence_level

\* the planner cached the result it accepted on its second attempt and has
\* returned; the entry is keyed by the fingerprint of that attempt
C40_Witness ==
    \E s \in Sessions : \E r \in PlannerEntries :
        /\ r.session_id = s
        /\ task[s].pos = "finished"
        /\ ctx[s].current_state = "DONE"
        /\ ctx[s].attempt_count = 2
        /\ r.query_hash = ctx[s].last_query_hash
        /\ query_sessions[s].status = "DONE"
        /\ Len(SelectRows(answer_snapshots, s)) = 1

====
